---- MODULE Spec2Model ----
(***************************************************************************)
(* Sno-py: the split tree of the window manager (window.py, editor.py)     *)
(* and the language-server client and its manager (lsp/client.py,          *)
(* lsp/manager.py), as state machines.                                     *)
(***************************************************************************)
EXTENDS Integers, Sequences, FiniteSets, TLC

VARIABLES
    root,           \* WindowManager.root: None, a window or a container
    children,       \* SplitContainer.children, per live container
    is_horizontal,  \* SplitContainer.is_horizontal, per live container
    active_window,  \* WindowManager.active_window: None or a window
    nwin,           \* number of EditorWindow objects constructed so far
    buffers,        \* EditorWindow.buffers, per constructed window
    active_buffer,  \* EditorWindow.active_buffer, per constructed window
    hist,           \* the split and close_window calls since startup (bounded record)
    run,            \* the current run of same-orientation splits of one target
    process,        \* LspClient._process: "None", or the subprocess, "running" or "exited"
    concurrent_tasks, \* LspClient._concurrent_tasks: "None" or "set"
    pump,           \* the three pump tasks: "unstarted", "running" or "done"
    process_gone,   \* LspClient._process_gone is set
    lsp_state,      \* lsp_client._state
    id_counter,     \* lsp_client._id_counter
    unanswered,     \* lsp_client._unanswered_requests: id -> method
    send_buf,       \* lsp_client._send_buf: the outbound queue
    server_recv,    \* the ids of the requests the server has read and not answered
    wire,           \* the server's stdout pipe: responses not read yet
    new_messages,   \* LspClient._new_messages: the items of the queue
    getters,        \* LspClient._new_messages: the tasks blocked in get(), in order
    ready,          \* the waiters the event loop will run next, in order
    messages,       \* LspClient._messages
    task,           \* the tasks awaiting a message: start, two requesters, exit's shutdown task
    exit_pc,        \* where the caller of exit() is
    exits,          \* the number of exit() calls so far
    crashed_pending,\* the requesters whose request was pending when the process died
    running,        \* LanguageClientManager._running
    mclient,        \* the LspClient objects get_client has constructed, in order
    caller,         \* the tasks that call get_client
    version,        \* FileBuffer._version: the next value of the counter
    buf_client,     \* FileBuffer._lsp_client: "None" or "bound"
    handlers,       \* LspClient._notification_handlers: entries for listen_for_reports
    diagnostics,    \* Diagnostic._diagnostics of FileBuffer._reports
    diag_ready,     \* Diagnostic._ready of FileBuffer._reports
    doc_recv,       \* the document notifications written to the server, in order
    handled,        \* the notifications listen_for_reports has handled (the last two)
    notification_queues, \* LspClient._notification_queues, by subscriber
    squeue,         \* the queue of each subscriber
    sub,            \* each subscriber: where it is, its token and its tasks
    nnote,          \* number of notifications the server has sent
    arrived,        \* the notifications put on each subscriber's queue
    delivered,      \* the notifications handed to the handlers by each subscriber
    disk,           \* the file system: each path's file and how it opens
    fbuf,           \* the FileBuffer objects constructed, by number
    ed_buffers,     \* SnoEdit.buffers: the FileBuffers in the editor's list
    ed_active,      \* SnoEdit.active_buffer: a FileBuffer or the debug buffer
    ed_pc,          \* where create_file_buffer is, or that the application exited
    ed_pending,     \* the FileBuffer whose load awaits get_client
    lsp_sent,       \* the document notifications handed to the clients, in order
    ecall           \* the last call: its arguments, its outcome and the state before

wmVars == <<root, children, is_horizontal, active_window, nwin, buffers,
            active_buffer, hist, run>>

lspVars == <<process, concurrent_tasks, pump, process_gone, lsp_state,
             id_counter, unanswered, send_buf, server_recv, wire, new_messages,
             getters, ready, messages, task, exit_pc, exits, crashed_pending>>

mgrVars == <<running, mclient, caller>>

bufVars == <<version, buf_client, handlers, diagnostics, diag_ready, doc_recv,
             handled>>

subVars == <<notification_queues, squeue, sub, nnote, arrived, delivered>>

edVars == <<disk, fbuf, ed_buffers, ed_active, ed_pc, ed_pending, lsp_sent,
            ecall>>

vars == <<wmVars, lspVars, mgrVars, bufVars, subVars, edVars>>

(***************************************************************************)
(* Bounds.                                                                 *)
(***************************************************************************)
MaxWindows == 4
MaxFiles == 3
MaxHist == 3
MaxIds == 3
MaxExits == 2
MaxClients == 3
MaxVersion == 3
MaxDiags == 2
MaxOpens == 2
MaxNotes == 2

(***************************************************************************)
(* Objects.  Windows and containers are objects with identity: a window is *)
(* <<"w", n>> (the n-th EditorWindow constructed), a container <<"c", n>>. *)
(***************************************************************************)
None == <<"none", 0>>
W(n) == <<"w", n>>
C(n) == <<"c", n>>
IsWindow(x) == x[1] = "w"
IsSplit(x) == x[1] = "c"

NoBuffer == "none"
FileNames == <<"A", "B", "C", "D">>

RECURSIVE Concat(_)
Concat(ss) == IF ss = <<>> THEN <<>> ELSE Head(ss) \o Concat(Tail(ss))

Reverse(s) == [i \in 1..Len(s) |-> s[Len(s) + 1 - i]]

IndexOf(s, x) == CHOOSE i \in 1..Len(s) : s[i] = x /\ \A j \in 1..(i - 1) : s[j] # x

InsertAt(s, i, x) == SubSeq(s, 1, i - 1) \o <<x>> \o SubSeq(s, i, Len(s))

RemoveFirst(s, x) ==
    LET i == IndexOf(s, x) IN SubSeq(s, 1, i - 1) \o SubSeq(s, i + 1, Len(s))

Elems(s) == {s[i] : i \in 1..Len(s)}

(***************************************************************************)
(* The window manager's state as one value, so that an operation that      *)
(* calls another (startup calls split) composes.                           *)
(***************************************************************************)
Cur == [root |-> root, children |-> children, is_horizontal |-> is_horizontal,
        active_window |-> active_window, nwin |-> nwin, buffers |-> buffers,
        active_buffer |-> active_buffer]

\* WindowManager.__init__
EmptyWM == [root |-> None, children |-> [c \in {} |-> <<>>],
            is_horizontal |-> [c \in {} |-> TRUE],
            active_window |-> None, nwin |-> 0, buffers |-> <<>>,
            active_buffer |-> <<>>]

\* WindowManager._get_all_windows: the pre-order list of the leaf windows
RECURSIVE GetAllWindows(_, _)
GetAllWindows(ch, container) ==
    IF container = None THEN <<>>
    ELSE IF IsWindow(container) THEN <<container>>
    ELSE Concat([i \in 1..Len(ch[container[2]]) |->
                    GetAllWindows(ch, ch[container[2]][i])])

\* the containers reachable from a node
RECURSIVE Containers(_, _)
Containers(ch, n) ==
    IF ~IsSplit(n) THEN {}
    ELSE {n} \cup UNION {Containers(ch, ch[n[2]][i]) : i \in 1..Len(ch[n[2]])}

\* WindowManager._find_parent: the immediate parent container of a node
RECURSIVE FindParent(_, _, _)
RECURSIVE FindParentFrom(_, _, _, _)
FindParent(ch, container, window) ==
    IF ~IsSplit(container) THEN None
    ELSE FindParentFrom(ch, container, window, 1)
FindParentFrom(ch, container, window, i) ==
    IF i > Len(ch[container[2]]) THEN None
    ELSE LET child == ch[container[2]][i] IN
         IF child = window THEN container
         ELSE IF IsSplit(child) /\ FindParent(ch, child, window) # None
              THEN FindParent(ch, child, window)
              ELSE FindParentFrom(ch, container, window, i + 1)

\* WindowManager._find_next_window: the first window of the pre-order walk
RECURSIVE FindNextWindow(_, _)
RECURSIVE FindNextWindowFrom(_, _, _)
FindNextWindow(ch, container) ==
    IF IsWindow(container) THEN container
    ELSE IF container = None THEN None
    ELSE FindNextWindowFrom(ch, container, 1)
FindNextWindowFrom(ch, container, i) ==
    IF i > Len(ch[container[2]]) THEN None
    ELSE IF FindNextWindow(ch, ch[container[2]][i]) # None
         THEN FindNextWindow(ch, ch[container[2]][i])
         ELSE FindNextWindowFrom(ch, container, i + 1)

\* the windows and the None entries at the leaves of the tree, in the
\* order in which WindowManager._find_next_window comes to them
RECURSIVE Leaves(_, _)
Leaves(ch, container) ==
    IF ~IsSplit(container) THEN <<container>>
    ELSE Concat([i \in 1..Len(ch[container[2]]) |->
                    Leaves(ch, ch[container[2]][i])])

\* WindowManager._find_next_window raises AttributeError when the walk
\* comes to None before it comes to a window: None has no children
FindNextWindowRaises(ch, container) ==
    LET leaves == Leaves(ch, container) IN
    leaves # <<>> /\ leaves[1] = None

\* A container object nothing refers to any more is gone; a new container is
\* an object distinct from every live one.
Collect(s) ==
    LET live == {c[2] : c \in Containers(s.children, s.root)} IN
    [s EXCEPT !.children = [c \in live |-> s.children[c]],
              !.is_horizontal = [c \in live |-> s.is_horizontal[c]]]

FreshContainer(s) ==
    CHOOSE c \in 1..(Cardinality(DOMAIN s.children) + 1) : c \notin DOMAIN s.children

\* SplitContainer.__init__
NewContainer(s, c, kids, horizontal) ==
    [s EXCEPT !.children = [x \in DOMAIN s.children \cup {c} |->
                               IF x = c THEN kids ELSE s.children[x]],
              !.is_horizontal = [x \in DOMAIN s.is_horizontal \cup {c} |->
                               IF x = c THEN horizontal ELSE s.is_horizontal[x]]]

\* WindowManager.focus_window
FocusWindow(s, window) ==
    IF window \in Elems(GetAllWindows(s.children, s.root))
    THEN [s EXCEPT !.active_window = window]
    ELSE s

\* EditorWindow.__init__ and WindowManager.create_window: the new window is
\* W(s.nwin + 1)
CreateWindow(s, buffer) ==
    LET w == s.nwin + 1
        made == [s EXCEPT !.nwin = w,
                          !.buffers = Append(s.buffers, <<buffer>>),
                          !.active_buffer = Append(s.active_buffer, buffer)]
    IN FocusWindow(made, W(w))

\* EditorWindow.add_buffer
AddBuffer(s, window, buffer) ==
    [s EXCEPT !.buffers[window[2]] = Append(@, buffer)]

\* The result of a call: the state it leaves and whether it raised.
Returned(s) == [s |-> Collect(s), raised |-> FALSE]
Raised(s) == [s |-> Collect(s), raised |-> TRUE]

\* SplitContainer.create_container, called by create_layout, raises
\* AttributeError when a child is None: None has no create_container
CreateLayoutRaises(s) ==
    \E c \in DOMAIN s.children :
        /\ None \in Elems(s.children[c])
        /\ C(c) \in Containers(s.children, s.root)

\* WindowManager._update_layout raises ValueError when the layout it built
\* does not hold the window it is to focus (prompt_toolkit's Layout.focus).
UpdateLayoutRaises(s) ==
    \/ CreateLayoutRaises(s)
    \/ /\ s.active_window # None
       /\ s.active_window \notin Elems(GetAllWindows(s.children, s.root))

\* SplitInTree with the new window appended to the parent's children
\* instead of inserted after the target
SplitInTreeAppend(s, window, new_window, horizontal) ==
    LET parent == FindParent(s.children, s.root, window)
        c == FreshContainer(s)
    IN IF parent = None
       THEN [NewContainer(s, c, <<s.root, new_window>>, horizontal)
                EXCEPT !.root = C(c)]
       ELSE LET index == IndexOf(s.children[parent[2]], window) IN
            IF s.is_horizontal[parent[2]] = horizontal
            THEN [s EXCEPT !.children[parent[2]] = Append(@, new_window)]
            ELSE [NewContainer(s, c, <<window, new_window>>, horizontal)
                     EXCEPT !.children[parent[2]][index] = C(c)]

\* SplitInTree with the new window inserted before the target
SplitInTreeBefore(s, window, new_window, horizontal) ==
    LET parent == FindParent(s.children, s.root, window)
        c == FreshContainer(s)
    IN IF parent = None
       THEN [NewContainer(s, c, <<s.root, new_window>>, horizontal)
                EXCEPT !.root = C(c)]
       ELSE LET index == IndexOf(s.children[parent[2]], window) IN
            IF s.is_horizontal[parent[2]] = horizontal
            THEN [s EXCEPT !.children[parent[2]] =
                               InsertAt(@, index, new_window)]
            ELSE [NewContainer(s, c, <<window, new_window>>, horizontal)
                     EXCEPT !.children[parent[2]][index] = C(c)]

\* SplitInTree with the new container holding the new window first
SplitInTreeSwapped(s, window, new_window, horizontal) ==
    LET parent == FindParent(s.children, s.root, window)
        c == FreshContainer(s)
    IN IF parent = None
       THEN [NewContainer(s, c, <<s.root, new_window>>, horizontal)
                EXCEPT !.root = C(c)]
       ELSE LET index == IndexOf(s.children[parent[2]], window) IN
            IF s.is_horizontal[parent[2]] = horizontal
            THEN [s EXCEPT !.children[parent[2]] =
                               InsertAt(@, index + 1, new_window)]
            ELSE [NewContainer(s, c, <<new_window, window>>, horizontal)
                     EXCEPT !.children[parent[2]][index] = C(c)]

\* WindowManager.split, lines 397-410: the tree is not empty
SplitInTree(s, window, new_window, horizontal) ==
    LET parent == FindParent(s.children, s.root, window)
        c == FreshContainer(s)
    IN IF parent = None
       THEN [NewContainer(s, c, <<s.root, new_window>>, horizontal)
                EXCEPT !.root = C(c)]
       ELSE LET index == IndexOf(s.children[parent[2]], window) IN
            IF s.is_horizontal[parent[2]] = horizontal
            THEN [s EXCEPT !.children[parent[2]] =
                               InsertAt(@, index + 1, new_window)]
            ELSE [NewContainer(s, c, <<window, new_window>>, horizontal)
                     EXCEPT !.children[parent[2]][index] = C(c)]

\* WindowManager.split, lines 412-416: a ValueError of _update_layout is
\* caught, no other error is
UpdateLayoutInSplit(s) ==
    IF CreateLayoutRaises(s) THEN Raised(s) ELSE Returned(s)

\* WindowManager.split
Split(s, window, horizontal, new_buffer) ==
    LET target == IF window = None THEN s.active_window ELSE window IN
    IF new_buffer = NoBuffer /\ target = None
    THEN Raised(s)     \* None has no attribute active_buffer
    ELSE LET buf == IF new_buffer = NoBuffer
                    THEN s.active_buffer[target[2]] ELSE new_buffer
             s1 == CreateWindow(s, buf)
             new_window == W(s1.nwin)
             c == FreshContainer(s1)
             s2 == IF s1.root = None
                   THEN [NewContainer(s1, c, <<target, new_window>>, horizontal)
                            EXCEPT !.root = C(c)]
                   ELSE SplitInTree(s1, target, new_window, horizontal)
         IN UpdateLayoutInSplit([s2 EXCEPT !.active_window = new_window])

\* WindowManager.close_window, lines 474-483: remove the window from its
\* parent and replace a parent left with one child by that child
RemoveAndCollapse(s, window) ==
    LET parent == FindParent(s.children, s.root, window) IN
    IF parent = None THEN s
    ELSE LET kids == RemoveFirst(s.children[parent[2]], window)
             s1 == [s EXCEPT !.children[parent[2]] = kids]
             grandparent == FindParent(s1.children, s1.root, parent)
         IN IF Len(kids) # 1 THEN s1
            ELSE IF grandparent # None
            THEN [s1 EXCEPT !.children[grandparent[2]][
                     IndexOf(s1.children[grandparent[2]], parent)] = kids[1]]
            ELSE [s1 EXCEPT !.root = kids[1]]

\* CloseWindow with the focus moved to the first window whichever window
\* was closed
CloseWindowRefocus(s, window) ==
    IF s.root # window /\ s.root = None
    THEN Raised(s)
    ELSE LET s1 == IF s.root = window
                   THEN [s EXCEPT !.root = None, !.active_window = None]
                   ELSE RemoveAndCollapse(s, window)
             s2 == [s1 EXCEPT !.active_window =
                                 FindNextWindow(s1.children, s1.root)]
         IN IF UpdateLayoutRaises(s2) THEN Raised(s2) ELSE Returned(s2)

\* CloseWindow without lines 485-486: the focus stays where it was
CloseWindowKeepsFocus(s, window) ==
    IF s.root # window /\ s.root = None
    THEN Raised(s)
    ELSE LET s1 == IF s.root = window
                   THEN [s EXCEPT !.root = None, !.active_window = None]
                   ELSE RemoveAndCollapse(s, window)
         IN IF UpdateLayoutRaises(s1) THEN Raised(s1) ELSE Returned(s1)

\* WindowManager.close_window
CloseWindow(s, window) ==
    IF s.root # window /\ s.root = None
    THEN Raised(s)     \* _find_parent: None has no attribute children
    ELSE LET s1 == IF s.root = window
                   THEN [s EXCEPT !.root = None, !.active_window = None]
                   ELSE RemoveAndCollapse(s, window)
             s2 == IF s1.active_window = window
                   THEN [s1 EXCEPT !.active_window =
                                      FindNextWindow(s1.children, s1.root)]
                   ELSE s1
         IN IF /\ s1.active_window = window
               /\ FindNextWindowRaises(s1.children, s1.root)
            THEN Raised(s1)
            ELSE IF UpdateLayoutRaises(s2) THEN Raised(s2) ELSE Returned(s2)

\* focus_next_window that stops at the last window
FocusNextWindowNoWrap(s) ==
    LET windows == GetAllWindows(s.children, s.root) IN
    IF windows = <<>> THEN Returned(s)
    ELSE IF s.active_window # None /\ s.active_window \notin Elems(windows)
    THEN Raised(s)
    ELSE LET current_index == IF s.active_window # None
                              THEN IndexOf(windows, s.active_window) - 1 ELSE -1
             next_index == IF current_index + 1 < Len(windows)
                           THEN current_index + 1 ELSE current_index
         IN Returned([s EXCEPT !.active_window = windows[next_index + 1]])

\* WindowManager.focus_next_window
FocusNextWindow(s) ==
    LET windows == GetAllWindows(s.children, s.root) IN
    IF windows = <<>> THEN Returned(s)
    ELSE IF s.active_window # None /\ s.active_window \notin Elems(windows)
    THEN Raised(s)     \* list.index: ValueError
    ELSE LET current_index == IF s.active_window # None
                              THEN IndexOf(windows, s.active_window) - 1 ELSE -1
             next_index == (current_index + 1) % Len(windows)
         IN Returned([s EXCEPT !.active_window = windows[next_index + 1]])

\* WindowManager.focus_previous_window
FocusPreviousWindow(s) ==
    LET windows == GetAllWindows(s.children, s.root) IN
    IF windows = <<>> THEN Returned(s)
    ELSE IF s.active_window # None /\ s.active_window \notin Elems(windows)
    THEN Raised(s)     \* list.index: ValueError
    ELSE LET current_index == IF s.active_window # None
                              THEN IndexOf(windows, s.active_window) - 1 ELSE 0
             prev_index == (current_index - 1) % Len(windows)
         IN Returned([s EXCEPT !.active_window = windows[prev_index + 1]])

\* Editor._init_layout, lines 98-112: the files after the first
RECURSIVE InitFiles(_, _, _, _, _)
InitFiles(st, files, i, open_split, open_vsplit) ==
    IF i > Len(files) THEN st
    ELSE IF open_split \/ open_vsplit
    THEN LET s1 == Split(st.s, st.s.active_window, open_split, files[i]).s IN
         InitFiles([s |-> s1, windows |-> Append(st.windows, s1.active_window)],
                   files, i + 1, open_split, open_vsplit)
    ELSE InitFiles([st EXCEPT !.s = AddBuffer(st.s, st.windows[1], files[i])],
                   files, i + 1, open_split, open_vsplit)

\* Editor._init_layout
InitLayout(files, open_split, open_vsplit) ==
    LET first_buffer == IF files = <<>> THEN "untitled" ELSE files[1]
        s0 == CreateWindow(EmptyWM, first_buffer)
        s1 == [s0 EXCEPT !.active_window = W(s0.nwin)]
        st == InitFiles([s |-> s1, windows |-> <<W(s0.nwin)>>], files, 2,
                        open_split, open_vsplit)
        c == FreshContainer(st.s)
        s2 == IF Len(st.windows) = 1
              THEN NewContainer(st.s, c, <<st.windows[1]>>, TRUE)
              ELSE NewContainer(st.s, c, st.windows, ~open_vsplit)
    IN \* WindowManager.set_layout
       Collect([s2 EXCEPT !.root = C(c)])

(***************************************************************************)
(* The window manager as a state machine.  hist and run record             *)
(* which operations were called; they do not influence the program.        *)
(***************************************************************************)
Op(name, window, horizontal, raised) ==
    [op |-> name, window |-> window, is_horizontal |-> horizontal,
     raised |-> raised]

Overflow == Op("overflow", None, TRUE, FALSE)
NoRun == [target |-> None, parent |-> None, made |-> <<>>]

Windows == {W(n) : n \in 1..nwin}

\* the command-line arguments: the files and the flags -o and -O
Arguments ==
    {[files |-> SubSeq(FileNames, 1, n), open_split |-> o, open_vsplit |-> v] :
        n \in 0..MaxFiles, o \in BOOLEAN, v \in BOOLEAN}

Install(s) ==
    /\ root' = s.root
    /\ children' = s.children
    /\ is_horizontal' = s.is_horizontal
    /\ active_window' = s.active_window
    /\ nwin' = s.nwin
    /\ buffers' = s.buffers
    /\ active_buffer' = s.active_buffer

\* hist is the calls so far while they are at most MaxHist calls of split
\* and close_window, and Overflow from then on
Record(op) ==
    hist' = IF /\ hist # <<Overflow>>
               /\ Len(hist) < MaxHist
               /\ op.op \in {"split", "close_window"}
            THEN Append(hist, op) ELSE <<Overflow>>

(***************************************************************************)
(* The language-server client: LspClient and the sansio client it drives.  *)
(***************************************************************************)
Tasks == {"start", "r1", "r2", "shutdown"}
Requesters == {"r1", "r2"}
RequestMethods == {"textDocument/completion", "textDocument/signatureHelp"}

\* the event type _handle_response makes of the response to a method
EventType(method) ==
    CASE method = "initialize" -> "Initialized"
      [] method = "shutdown" -> "Shutdown"
      [] method = "textDocument/completion" -> "Completion"
      [] method = "textDocument/signatureHelp" -> "SignatureHelp"

NoMessage == [type |-> "none", id |-> -1]
IdleTask == [pc |-> "idle", want |-> "none", id |-> -1, got |-> NoMessage]

\* LspClient.__init__; the sansio client sends the initialize request, id 0,
\* when it is constructed
ClientConstructed ==
    /\ process = "None"
    /\ concurrent_tasks = "None"
    /\ pump = [p \in {"stdin", "stdout", "stderr"} |-> "unstarted"]
    /\ process_gone = FALSE
    /\ lsp_state = "WAITING_FOR_INITIALIZED"
    /\ id_counter = 1
    /\ unanswered = [i \in {0} |-> "initialize"]
    /\ send_buf = <<[kind |-> "request", method |-> "initialize", id |-> 0]>>
    /\ server_recv = {}
    /\ wire = <<>>
    /\ new_messages = <<>>
    /\ getters = <<>>
    /\ ready = <<>>
    /\ messages = <<>>
    /\ task = [t \in Tasks |-> IdleTask]
    /\ exit_pc = "idle"
    /\ exits = 0
    /\ crashed_pending = {}


(***************************************************************************)
(* LanguageClientManager: the registered servers, the files get_client is  *)
(* called with, and the manager as constructed.                            *)
(***************************************************************************)
Callers == {"g1", "g2"}

\* LanguageClientManager._servers after two add_server calls
Servers ==
    << [language_id |-> "python", extensions |-> <<".py", ".pyi">>],
       [language_id |-> "rust", extensions |-> <<".rs">>] >>

\* file paths as os.path.splitext splits them
FilePaths == {<<"a", ".py">>, <<"b", ".pyi">>, <<"c", ".rs">>, <<"d", ".txt">>}

NoConfig == [language_id |-> "none", extensions |-> <<>>]
NoClient == 0

get_extension_from_file_path(file_path) == file_path[2]

get_server_config(file_path) ==
    LET ext == get_extension_from_file_path(file_path)
        hits == {i \in DOMAIN Servers : ext \in Elems(Servers[i].extensions)}
    IN IF hits = {} THEN NoConfig
       ELSE Servers[CHOOSE i \in hits : \A j \in hits : i <= j]

\* get_client, lines 34-36: the first running server with the extensions
RunningClient(rs, config) ==
    LET hits == {i \in DOMAIN rs : rs[i].extensions = config.extensions} IN
    IF hits = {} THEN NoClient
    ELSE rs[CHOOSE i \in hits : \A j \in hits : i <= j].client

IdleCaller == [pc |-> "idle", config |-> NoConfig, client |-> NoClient]

ManagerConstructed ==
    /\ running = <<>>
    /\ mclient = <<>>
    /\ caller = [g \in Callers |-> IdleCaller]

(***************************************************************************)
(* FileBuffer: one buffer, its version counter, its reports and the        *)
(* document notifications it sends through its client.                     *)
(***************************************************************************)
DocMethods == {"textDocument/didOpen", "textDocument/didChange"}

\* the diagnostics a publishDiagnostics notification can carry
Diagnostics ==
    {[message |-> "e1", severity |-> "ERROR"],
     [message |-> "e2", severity |-> "ERROR"],
     [message |-> "w1", severity |-> "WARNING"]}

RECURSIVE SeqsUpTo(_, _)
SeqsUpTo(S, n) ==
    IF n = 0 THEN {<<>>}
    ELSE SeqsUpTo(S, n - 1) \cup
         {Append(s, x) : s \in {q \in SeqsUpTo(S, n - 1) : Len(q) = n - 1},
                         x \in S}

\* textDocument/publishDiagnostics events, by their diagnostics
Events == SeqsUpTo(Diagnostics, MaxDiags)

BufferConstructed ==
    /\ version = 0
    /\ buf_client = "None"
    /\ handlers = 0
    /\ diagnostics = <<>>
    /\ diag_ready = FALSE
    /\ doc_recv = <<>>
    /\ handled = <<>>

(***************************************************************************)
(* The subscribers of LspClient.listen_for_notifications.                  *)
(***************************************************************************)
Subscribers == {"s1", "s2"}

\* a subscriber before it calls listen_for_notifications.  pc: idle, waiting
\* (in asyncio.wait), ended or crashed; token: cancellation_token is set;
\* tokdone: cancellation_token_task is done; qtask: queue_task is none,
\* pending, result (got holds it) or crashed; cancelled: what the subscriber
\* was doing when the token was set from outside, and setat: how many
\* notifications had arrived by then
IdleSubscriber ==
    [pc |-> "idle", token |-> FALSE, tokdone |-> FALSE, qtask |-> "none",
     got |-> 0, cancelled |-> "no", setat |-> -1]

SubscribersConstructed ==
    /\ notification_queues = <<>>
    /\ squeue = [s \in Subscribers |-> <<>>]
    /\ sub = [s \in Subscribers |-> IdleSubscriber]
    /\ nnote = 0
    /\ arrived = [s \in Subscribers |-> <<>>]
    /\ delivered = [s \in Subscribers |-> <<>>]

(***************************************************************************)
(* SnoEdit and its FileBuffers: the files on disk, the editor's buffer     *)
(* list and the document notifications handed to the language clients.     *)
(***************************************************************************)
\* the paths the editor is asked to open, as os.path.splitext splits them
EdPaths == {<<"a", ".py">>, <<"b", ".pyi">>, <<"d", ".txt">>}

NoPath == <<"", "">>

\* the texts the user types
Texts == {"p", "q"}

\* how open() of a path for writing ends: it succeeds ("rw"), it raises
\* PermissionError (errno EACCES), or it raises an OSError that is not a
\* PermissionError (errno EROFS, a file system mounted read-only)
OpenModes == {"rw", "EACCES", "EROFS"}

Absent(mode) == [exists |-> FALSE, mode |-> mode, content |-> ""]

Present(mode, content) == [exists |-> TRUE, mode |-> mode, content |-> content]

\* the file systems the editor starts on
Disks ==
    {[p \in EdPaths |-> IF p[1] = "a" THEN a ELSE IF p[1] = "b" THEN b ELSE d] :
        a \in {Present("rw", "p"), Present("EACCES", "p"), Absent("rw")},
        b \in {Present("rw", "p"), Present("EROFS", "p")},
        d \in {Absent("EACCES")}}

\* SnoEdit.debug_buffer, the active buffer before any file is opened
DebugBuffer == 0

NoFileBuffer ==
    [path |-> NoPath, name |-> <<-1, NoPath>>, index |-> 0, saved_text |-> "",
     text |-> "", read_only |-> FALSE, lsp_client |-> NoClient,
     persisted |-> "", handlers |-> 0, reports |-> <<>>]

\* a call of the editor: its buffer, its path and how it and load() ended
Call(op, buf, path, result, load) ==
    [op |-> op, buf |-> buf, path |-> path, result |-> result, load |-> load]

EditorConstructedOn(d) ==
    /\ disk = d
    /\ fbuf = <<>>
    /\ ed_buffers = <<>>
    /\ ed_active = DebugBuffer
    /\ ed_pc = "idle"
    /\ ed_pending = NoFileBuffer
    /\ lsp_sent = <<>>
    /\ ecall = Call("none", 0, NoPath, "none", "none")

\* no SnoEdit is constructed: the window manager, the language client and
\* the buffers below belong to an Editor (editor.py)
NoSnoEdit ==
    /\ disk = <<>>
    /\ fbuf = <<>>
    /\ ed_buffers = <<>>
    /\ ed_active = DebugBuffer
    /\ ed_pc = "none"
    /\ ed_pending = <<>>
    /\ lsp_sent = <<>>
    /\ ecall = <<>>

InitWM ==
    \E args \in Arguments :
        LET s == InitLayout(args.files, args.open_split, args.open_vsplit) IN
        /\ root = s.root
        /\ children = s.children
        /\ is_horizontal = s.is_horizontal
        /\ active_window = s.active_window
        /\ nwin = s.nwin
        /\ buffers = s.buffers
        /\ active_buffer = s.active_buffer
        /\ hist = <<>>
        /\ run = NoRun
        /\ ClientConstructed
        /\ ManagerConstructed
        /\ BufferConstructed
        /\ NoSnoEdit
        /\ SubscribersConstructed

\* split(window, is_horizontal) returns; window = None is the default argument
SplitAct ==
    \E window \in Windows \cup {None}, horizontal \in BOOLEAN :
        LET r == Split(Cur, window, horizontal, NoBuffer)
            target == IF window = None THEN active_window ELSE window
            parent == FindParent(children, root, target)
            same == parent # None /\ is_horizontal[parent[2]] = horizontal
        IN /\ nwin < MaxWindows
           /\ ~r.raised
           /\ Install(r.s)
           /\ Record(Op("split", window, horizontal, FALSE))
           /\ UNCHANGED <<lspVars, mgrVars, bufVars, subVars, edVars>>
           /\ run' = IF ~same THEN NoRun
                     ELSE IF run.target = target
                     THEN [run EXCEPT !.made = Append(@, W(r.s.nwin))]
                     ELSE [target |-> target, parent |-> parent,
                           made |-> <<W(r.s.nwin)>>]

\* split() with no target and no active window raises
SplitRaises ==
    \E horizontal \in BOOLEAN :
        LET r == Split(Cur, None, horizontal, NoBuffer) IN
        /\ r.raised
        /\ r.s.nwin <= MaxWindows
        /\ Install(r.s)
        /\ Record(Op("split", None, horizontal, TRUE))
        /\ UNCHANGED <<lspVars, mgrVars, bufVars, subVars, edVars>>
        /\ run' = NoRun

\* close_window(window)
CloseWindowAct ==
    \E window \in Windows :
        LET r == CloseWindow(Cur, window) IN
        /\ Install(r.s)
        /\ Record(Op("close_window", window, TRUE, r.raised))
        /\ UNCHANGED <<lspVars, mgrVars, bufVars, subVars, edVars>>
        /\ run' = NoRun

\* create_window(buffer), for a buffer some window shows
CreateWindowAct ==
    \E w \in Windows :
        /\ nwin < MaxWindows
        /\ Install(CreateWindow(Cur, active_buffer[w[2]]))
        /\ Record(Op("create_window", None, TRUE, FALSE))
        /\ UNCHANGED <<lspVars, mgrVars, bufVars, subVars, edVars>>
        /\ run' = NoRun

\* focus_window(window)
FocusWindowAct ==
    \E window \in Windows :
        /\ Install(FocusWindow(Cur, window))
        /\ Record(Op("focus_window", window, TRUE, FALSE))
        /\ UNCHANGED <<lspVars, mgrVars, bufVars, subVars, edVars>>
        /\ run' = NoRun

\* focus_next_window()
FocusNextWindowAct ==
    LET r == FocusNextWindow(Cur) IN
    /\ Install(r.s)
    /\ Record(Op("focus_next_window", None, TRUE, r.raised))
    /\ UNCHANGED <<lspVars, mgrVars, bufVars, subVars, edVars>>
    /\ run' = NoRun

\* focus_previous_window()
FocusPreviousWindowAct ==
    LET r == FocusPreviousWindow(Cur) IN
    /\ Install(r.s)
    /\ Record(Op("focus_previous_window", None, TRUE, r.raised))
    /\ UNCHANGED <<lspVars, mgrVars, bufVars, subVars, edVars>>
    /\ run' = NoRun

NextWM ==
    \/ SplitAct
    \/ SplitRaises
    \/ CloseWindowAct
    \/ CreateWindowAct
    \/ FocusWindowAct
    \/ FocusNextWindowAct
    \/ FocusPreviousWindowAct

SpecWM == InitWM /\ [][NextWM]_vars

(***************************************************************************)
(* Claims about the split tree.                                            *)
(***************************************************************************)
TreeWindows == GetAllWindows(children, root)
TreeContainers == Containers(children, root)

\* the operations called so far are known, and all of them are calls of
\* split or close_window that returned
OnlySplitsAndCloses ==
    /\ hist # <<>>
    /\ hist # <<Overflow>>
    /\ \A i \in 1..Len(hist) :
          hist[i].op \in {"split", "close_window"} /\ ~hist[i].raised

\* C1: after any sequence of split and close_window calls from the startup
\* layout, no container reachable from root has exactly one child.
C1_NoContainerWithOneChild ==
    OnlySplitsAndCloses => \A c \in TreeContainers : Len(children[c[2]]) # 1

\* C2: active_window is a window reachable from root, or root and
\* active_window are both None.
C2_ActiveWindowReachable ==
    \/ active_window # None /\ active_window \in Elems(TreeWindows)
    \/ active_window = None /\ root = None

\* the editor was started on the one file A and these calls followed
StartedOnA(calls) ==
    /\ hist = calls
    /\ nwin = 1 + Cardinality({i \in 1..Len(calls) : calls[i].op = "split"})
    /\ buffers[1] = <<"A">>

SplitThenSplitThenClose ==
    <<Op("split", W(1), TRUE, FALSE), Op("split", W(2), TRUE, FALSE),
      Op("close_window", W(2), TRUE, FALSE)>>

RootIs(horizontal, kids) ==
    /\ IsSplit(root)
    /\ is_horizontal[root[2]] = horizontal
    /\ children[root[2]] = kids

C8_Steps ==
    /\ StartedOnA(SubSeq(SplitThenSplitThenClose, 1, 1)) =>
          /\ RootIs(TRUE, <<W(1), W(2)>>)
          /\ active_buffer[1] = "A" /\ active_buffer[2] = "A"
          /\ active_window = W(2)
    /\ StartedOnA(SubSeq(SplitThenSplitThenClose, 1, 2)) =>
          RootIs(TRUE, <<W(1), W(2), W(3)>>)
    /\ StartedOnA(SplitThenSplitThenClose) => RootIs(TRUE, <<W(1), W(3)>>)

\* C8 as stated: split(W1, h), split(W2, h), close_window(W2) on one window
\* showing A give Split(h)[W1, W2] with active W2, Split(h)[W1, W2, W3],
\* then Split(h)[W1, W3] with active window W1.
C8_ScenarioAsStated ==
    /\ C8_Steps
    /\ StartedOnA(SplitThenSplitThenClose) => active_window = W(1)

\* C8 amended: the same scenario ends in Split(h)[W1, W3] with the active
\* window still W3, the window made by the second split, since the closed
\* window W2 was not the active one.
C8_Scenario ==
    /\ C8_Steps
    /\ StartedOnA(SplitThenSplitThenClose) => active_window = W(3)

C8_Witness ==
    StartedOnA(SplitThenSplitThenClose) /\ RootIs(TRUE, <<W(1), W(3)>>)

\* C9: on the startup layout for one file, a horizontal root holding only
\* W1, split(W1, horizontal=false) makes the root a vertical split with
\* children exactly [W1, W2].
C9_VerticalSplitOfSingleWindow ==
    (hist = <<Op("split", W(1), FALSE, FALSE)>> /\ nwin = 2) =>
        RootIs(FALSE, <<W(1), W(2)>>)

\* the windows of made, in the order of the pre-order leaf traversal
InTraversalOrder(made) == SelectSeq(TreeWindows, LAMBDA w : w \in Elems(made))

C10_Siblings ==
    run.target # None =>
        /\ FindParent(children, root, run.target) = run.parent
        /\ \A w \in Elems(run.made) :
              FindParent(children, root, w) = run.parent

\* C10 as stated: after a sequence of splits of one target, each with the
\* orientation of the target's parent, the created windows are direct
\* siblings of the target and the pre-order traversal lists them in the
\* order in which they were created.
C10_CreationOrder ==
    /\ C10_Siblings
    /\ run.target # None => InTraversalOrder(run.made) = run.made

\* C10 amended: the created windows are direct siblings of the target, and
\* the pre-order traversal lists them directly after the target in the
\* reverse of the order in which they were created.
C10_ReverseCreationOrder ==
    /\ C10_Siblings
    /\ run.target # None =>
          /\ InTraversalOrder(run.made) = Reverse(run.made)
          /\ LET kids == children[run.parent[2]]
                 i == IndexOf(kids, run.target)
             IN SubSeq(kids, i + 1, i + Len(run.made)) = Reverse(run.made)

C10_Witness ==
    run.target # None /\ Len(run.made) >= 3

(***************************************************************************)
(* The language-server client as a state machine: one LspClient, its       *)
(* subprocess, its three pump tasks, and the tasks that await a message.   *)
(***************************************************************************)
Min(S) == CHOOSE x \in S : \A y \in S : x <= y

RemoveIndex(s, i) == SubSeq(s, 1, i - 1) \o SubSeq(s, i + 1, Len(s))

Without(s, x) == SelectSeq(s, LAMBDA y : y # x)

Waiting(t) == task[t].pc \in {"get", "blocked"}

\* the event loop runs the waiters in the order in which they became runnable
Runnable(rdy, tk, t) == IF tk[t].pc = "get" THEN Append(rdy, t) ELSE rdy

\* LspClient._wait_for_message_of_type, lines 177-180: a message of the type
\* set aside earlier is returned at once
BeginWait(tk, msgs, t, type, id) ==
    LET hits == {i \in 1..Len(msgs) : msgs[i].type = type} IN
    IF hits # {}
    THEN [task |-> [tk EXCEPT ![t] = [pc |-> "returned", want |-> type,
                                      id |-> id, got |-> msgs[Min(hits)]]],
          messages |-> RemoveIndex(msgs, Min(hits))]
    ELSE [task |-> [tk EXCEPT ![t] = [pc |-> "get", want |-> type, id |-> id,
                                      got |-> NoMessage]],
          messages |-> msgs]

\* LspClient._wait_for_message_of_type, lines 183-187: what the waiter does
\* with the message it took from the queue
Received(tk, msgs, t, m) ==
    IF m.type = tk[t].want
    THEN [task |-> [tk EXCEPT ![t].pc = "returned", ![t].got = m],
          messages |-> msgs]
    ELSE [task |-> tk, messages |-> Append(msgs, m)]

\* AsyncSendLspClient._send_request
SendRequest(method) ==
    /\ id_counter' = id_counter + 1
    /\ send_buf' = Append(send_buf, [kind |-> "request", method |-> method,
                                     id |-> id_counter])
    /\ unanswered' = [i \in DOMAIN unanswered \cup {id_counter} |->
                         IF i = id_counter THEN method ELSE unanswered[i]]

\* LspClient.start, up to the wait for the Initialized message
Start ==
    /\ process = "None" /\ concurrent_tasks = "None"
    /\ task["start"].pc = "idle"
    /\ process' = "running"
    /\ concurrent_tasks' = "set"
    /\ pump' = [p \in DOMAIN pump |-> "running"]
    /\ LET r == BeginWait(task, messages, "start", "Initialized", 0) IN
       /\ task' = r.task
       /\ messages' = r.messages
       /\ ready' = Runnable(ready, r.task, "start")
    /\ UNCHANGED <<process_gone, lsp_state, id_counter, unanswered, send_buf,
                   server_recv, wire, new_messages, getters, exit_pc, exits,
                   crashed_pending, wmVars, edVars, mgrVars, bufVars, subVars>>

\* LspClient.request_completion and request_signature, up to the wait, on a
\* client whose start() has returned
Request ==
    \E t \in Requesters, method \in RequestMethods :
        /\ task["start"].pc = "returned"
        /\ ~Waiting(t)
        /\ id_counter < MaxIds
        /\ crashed_pending' = crashed_pending \ {t}
        /\ IF lsp_state = "NORMAL"
           THEN /\ SendRequest(method)
                /\ LET r == BeginWait(task, messages, t, EventType(method),
                                      id_counter)
                   IN /\ task' = r.task
                      /\ messages' = r.messages
                      /\ ready' = Runnable(ready, r.task, t)
           ELSE \* the sansio client asserts that its state is NORMAL
                /\ task' = [task EXCEPT ![t] =
                               [pc |-> "AssertionError",
                                want |-> EventType(method), id |-> -1,
                                got |-> NoMessage]]
                /\ UNCHANGED <<id_counter, send_buf, unanswered, messages,
                               ready>>
        /\ UNCHANGED <<process, concurrent_tasks, pump, process_gone, lsp_state,
                       server_recv, wire, new_messages, getters, exit_pc, exits,
                       wmVars, edVars, mgrVars, bufVars, subVars>>

\* LspClient._wait_for_message_of_type, line 183: the waiter calls get() on
\* the queue, or runs again after a put woke it
Get ==
    \E t \in Tasks :
        /\ ready # <<>> /\ t = Head(ready)
        /\ task[t].pc = "get"
        /\ IF new_messages # <<>>
           THEN /\ new_messages' = Tail(new_messages)
                /\ LET r == Received(task, messages, t, Head(new_messages)) IN
                   /\ task' = r.task
                   /\ messages' = r.messages
                   /\ ready' = IF r.task[t].pc = "get" THEN ready
                                ELSE Tail(ready)
                /\ UNCHANGED getters
           ELSE /\ getters' = Append(getters, t)
                /\ ready' = Tail(ready)
                /\ task' = [task EXCEPT ![t].pc = "blocked"]
                /\ UNCHANGED <<new_messages, messages>>
        /\ UNCHANGED <<process, concurrent_tasks, pump, process_gone, lsp_state,
                       id_counter, unanswered, send_buf, server_recv, wire,
                       exit_pc, exits, crashed_pending, wmVars, edVars, mgrVars, bufVars, subVars>>

\* LspClient._wait_for_message_of_type, line 183: wait_for gives up after
\* the timeout; exit's shutdown task waits with timeout=None
Timeout ==
    \E t \in Tasks \ {"shutdown"} :
        /\ task[t].pc = "blocked"
        /\ task' = [task EXCEPT ![t].pc = "TimeoutError"]
        /\ getters' = Without(getters, t)
        /\ UNCHANGED <<process, concurrent_tasks, pump, process_gone, lsp_state,
                       id_counter, unanswered, send_buf, server_recv, wire,
                       new_messages, messages, ready, exit_pc, exits, crashed_pending,
                       wmVars, edVars, mgrVars, bufVars, subVars>>

\* the server answers a request it has read; it answers in any order
ServerRespond ==
    \E id \in server_recv :
        /\ process = "running"
        /\ wire' = Append(wire, id)
        /\ server_recv' = server_recv \ {id}
        /\ UNCHANGED <<process, concurrent_tasks, pump, process_gone, lsp_state,
                       id_counter, unanswered, send_buf, new_messages, getters, ready,
                       messages, task, exit_pc, exits, crashed_pending, wmVars, edVars, mgrVars, bufVars, subVars>>

\* the server process dies
ServerDies ==
    /\ process = "running"
    /\ process' = "exited"
    /\ server_recv' = {}
    /\ crashed_pending' = crashed_pending \cup {t \in Requesters : Waiting(t)}
    /\ UNCHANGED <<concurrent_tasks, pump, process_gone, lsp_state, id_counter,
                   unanswered, send_buf, wire, new_messages, getters, ready, messages,
                   task, exit_pc, exits, wmVars, edVars, mgrVars, bufVars, subVars>>

\* LspClient._send_stdin: a message is written to the running process
SendStdin ==
    /\ pump["stdin"] = "running"
    /\ send_buf # <<>>
    /\ process = "running"
    /\ send_buf' = Tail(send_buf)
    /\ server_recv' = IF Head(send_buf).kind = "request"
                      THEN server_recv \cup {Head(send_buf).id}
                      ELSE server_recv
    /\ doc_recv' = IF Head(send_buf).method \in DocMethods
                   THEN Append(doc_recv, [method |-> Head(send_buf).method,
                                          version |-> Head(send_buf).version])
                   ELSE doc_recv
    /\ UNCHANGED <<process, concurrent_tasks, pump, process_gone, lsp_state,
                   id_counter, unanswered, wire, new_messages, getters, ready,
                   messages, task, exit_pc, exits, crashed_pending, wmVars, edVars,
                   mgrVars, version, buf_client, handlers, diagnostics,
                   diag_ready, handled, subVars>>

\* LspClient._send_stdin: a message is written to the pipe of a process that
\* has exited; the write is dropped, or drain() raises and ends the pump
\* without setting _process_gone
SendStdinBroken ==
    \E raises \in BOOLEAN :
        /\ pump["stdin"] = "running"
        /\ send_buf # <<>>
        /\ process = "exited"
        /\ send_buf' = Tail(send_buf)
        /\ pump' = IF raises THEN [pump EXCEPT !["stdin"] = "done"] ELSE pump
        /\ UNCHANGED <<process, concurrent_tasks, process_gone, lsp_state,
                       id_counter, unanswered, server_recv, wire, new_messages,
                       getters, ready, messages, task, exit_pc, exits, crashed_pending,
                       wmVars, edVars, mgrVars, bufVars, subVars>>

\* LspClient._process_stdout, lines 115-122: a response is read and parsed,
\* put on _new_messages, and the first task blocked in get() is woken
ProcessStdout ==
    /\ pump["stdout"] = "running"
    /\ wire # <<>>
    /\ LET id == Head(wire)
           method == unanswered[id]
       IN /\ wire' = Tail(wire)
          /\ unanswered' = [i \in DOMAIN unanswered \ {id} |-> unanswered[i]]
          /\ lsp_state' = CASE method = "initialize" -> "NORMAL"
                            [] method = "shutdown" -> "SHUTDOWN"
                            [] OTHER -> lsp_state
          /\ send_buf' = IF method = "initialize"
                         THEN Append(send_buf, [kind |-> "notification",
                                                method |-> "initialized",
                                                id |-> -1])
                         ELSE send_buf
          /\ new_messages' = Append(new_messages,
                                    [type |-> EventType(method), id |-> id])
    /\ IF getters # <<>>
       THEN /\ getters' = Tail(getters)
            /\ ready' = Append(ready, Head(getters))
            /\ task' = [task EXCEPT ![Head(getters)].pc = "get"]
       ELSE UNCHANGED <<getters, ready, task>>
    /\ UNCHANGED <<process, concurrent_tasks, pump, process_gone, id_counter,
                   server_recv, messages, exit_pc, exits, crashed_pending,
                   wmVars, edVars, mgrVars, bufVars, subVars>>

\* LspClient._process_stdout, lines 111-112 and 126: end of file
ProcessStdoutEOF ==
    /\ pump["stdout"] = "running"
    /\ wire = <<>>
    /\ process = "exited"
    /\ pump' = [pump EXCEPT !["stdout"] = "done"]
    /\ process_gone' = TRUE
    /\ UNCHANGED <<process, concurrent_tasks, lsp_state, id_counter, unanswered,
                   send_buf, server_recv, wire, new_messages, getters, ready, messages,
                   task, exit_pc, exits, crashed_pending, wmVars, edVars, mgrVars, bufVars, subVars>>

\* LspClient._log_stderr, line 136: the server writes a line to stderr;
\* LspClient has no attribute logger, so the pump ends with AttributeError
LogStderrLine ==
    /\ pump["stderr"] = "running"
    /\ process = "running"
    /\ pump' = [pump EXCEPT !["stderr"] = "done"]
    /\ UNCHANGED <<process, concurrent_tasks, process_gone, lsp_state,
                   id_counter, unanswered, send_buf, server_recv, wire,
                   new_messages, getters, ready, messages, task, exit_pc, exits,
                   crashed_pending, wmVars, edVars, mgrVars, bufVars, subVars>>

\* LspClient._log_stderr, lines 132-133 and 140: end of file
LogStderrEOF ==
    /\ pump["stderr"] = "running"
    /\ process = "exited"
    /\ pump' = [pump EXCEPT !["stderr"] = "done"]
    /\ process_gone' = TRUE
    /\ UNCHANGED <<process, concurrent_tasks, lsp_state, id_counter, unanswered,
                   send_buf, server_recv, wire, new_messages, getters, ready, messages,
                   task, exit_pc, exits, crashed_pending, wmVars, edVars, mgrVars, bufVars, subVars>>

\* LspClient.exit, lines 357-363 and 383-384, up to its first await
ExitCall ==
    /\ exit_pc \in {"idle", "returned", "raised"}
    /\ exits < MaxExits
    /\ exits' = exits + 1
    /\ IF process = "None"
       THEN \* no process: _concurrent_tasks is None and has no cancel()
            /\ exit_pc' = "raised"
            /\ UNCHANGED <<process, lsp_state, id_counter, send_buf, unanswered,
                           task, ready, server_recv>>
       ELSE IF process = "running" /\ ~process_gone /\ lsp_state = "NORMAL"
       THEN \* the shutdown request is sent and shutdown_task created
            /\ SendRequest("shutdown")
            /\ lsp_state' = "WAITING_FOR_SHUTDOWN"
            /\ task' = [task EXCEPT !["shutdown"] =
                           [pc |-> "get", want |-> "Shutdown",
                            id |-> id_counter, got |-> NoMessage]]
            /\ ready' = Append(ready, "shutdown")
            /\ exit_pc' = "wait_shutdown"
            /\ UNCHANGED <<process, server_recv>>
       ELSE \* no handshake, or shutdown() fails its assertion: terminate()
            /\ process' = "exited"
            /\ server_recv' = {}
            /\ exit_pc' = "reap"
            /\ UNCHANGED <<lsp_state, id_counter, send_buf, unanswered, task,
                           ready>>
    /\ UNCHANGED <<concurrent_tasks, pump, process_gone, wire, new_messages,
                   getters, messages, crashed_pending, wmVars, edVars, mgrVars, bufVars, subVars>>

\* LspClient.exit, lines 368-369 and 377: the shutdown task has the
\* response; the exit notification is sent and the process terminated
ExitShutdownDone ==
    /\ exit_pc = "wait_shutdown"
    /\ task["shutdown"].pc = "returned"
    /\ IF lsp_state = "SHUTDOWN"
       THEN /\ send_buf' = Append(send_buf, [kind |-> "notification",
                                             method |-> "exit", id |-> -1])
            /\ lsp_state' = "EXITED"
       ELSE UNCHANGED <<send_buf, lsp_state>>
    /\ process' = "exited"
    /\ server_recv' = {}
    /\ exit_pc' = "reap"
    /\ UNCHANGED <<concurrent_tasks, pump, process_gone, id_counter, unanswered,
                   wire, new_messages, getters, ready, messages, task, exits,
                   crashed_pending, wmVars, edVars, mgrVars, bufVars, subVars>>

\* LspClient.exit, lines 370-371 and 377: the three pumps have all ended
\* first; the shutdown task is cancelled and the process terminated
ExitTasksDone ==
    /\ exit_pc = "wait_shutdown"
    /\ task["shutdown"].pc # "returned"
    /\ \A p \in DOMAIN pump : pump[p] = "done"
    /\ task' = [task EXCEPT !["shutdown"].pc = "cancelled"]
    /\ getters' = Without(getters, "shutdown")
    /\ ready' = Without(ready, "shutdown")
    /\ process' = "exited"
    /\ server_recv' = {}
    /\ exit_pc' = "reap"
    /\ UNCHANGED <<concurrent_tasks, pump, process_gone, lsp_state, id_counter,
                   unanswered, send_buf, wire, new_messages, messages, exits,
                   crashed_pending, wmVars, edVars, mgrVars, bufVars, subVars>>

\* LspClient.exit, lines 380-388: the process is reaped, the pumps are
\* cancelled and awaited, and exit() returns
ExitReap ==
    /\ exit_pc = "reap"
    /\ process' = "None"
    /\ process_gone' = (process_gone \/ \E p \in DOMAIN pump : pump[p] = "running")
    /\ pump' = [p \in DOMAIN pump |-> "done"]
    /\ concurrent_tasks' = "None"
    /\ exit_pc' = "returned"
    /\ UNCHANGED <<lsp_state, id_counter, unanswered, send_buf, server_recv,
                   wire, new_messages, getters, ready, messages, task, exits,
                   crashed_pending, wmVars, edVars, mgrVars, bufVars, subVars>>

InitLsp ==
    /\ ClientConstructed
    /\ ManagerConstructed
    /\ BufferConstructed
    /\ SubscribersConstructed
    /\ NoSnoEdit
    /\ LET s == InitLayout(<<>>, FALSE, FALSE) IN
       /\ root = s.root
       /\ children = s.children
       /\ is_horizontal = s.is_horizontal
       /\ active_window = s.active_window
       /\ nwin = s.nwin
       /\ buffers = s.buffers
       /\ active_buffer = s.active_buffer
    /\ hist = <<>>
    /\ run = NoRun

NextLsp ==
    \/ Start
    \/ Request
    \/ Get
    \/ Timeout
    \/ ServerRespond
    \/ ServerDies
    \/ SendStdin
    \/ SendStdinBroken
    \/ ProcessStdout
    \/ ProcessStdoutEOF
    \/ LogStderrLine
    \/ LogStderrEOF
    \/ ExitCall
    \/ ExitShutdownDone
    \/ ExitTasksDone
    \/ ExitReap

SpecLsp == InitLsp /\ [][NextLsp]_vars

\* The event loop runs every task that can run, and a timeout that is
\* pending expires; the server need not answer, die or write anything.
FairLsp ==
    /\ WF_vars(Get)
    /\ WF_vars(Timeout)
    /\ WF_vars(SendStdin)
    /\ WF_vars(SendStdinBroken)
    /\ WF_vars(ProcessStdout)
    /\ WF_vars(ProcessStdoutEOF)
    /\ WF_vars(LogStderrEOF)
    /\ WF_vars(ExitShutdownDone)
    /\ WF_vars(ExitTasksDone)
    /\ WF_vars(ExitReap)

FairSpecLsp == SpecLsp /\ FairLsp

\* exit() on a client nobody sends requests on
NextExit ==
    \/ Start
    \/ Get
    \/ Timeout
    \/ ServerRespond
    \/ ServerDies
    \/ SendStdin
    \/ SendStdinBroken
    \/ ProcessStdout
    \/ ProcessStdoutEOF
    \/ LogStderrLine
    \/ LogStderrEOF
    \/ ExitCall
    \/ ExitShutdownDone
    \/ ExitTasksDone
    \/ ExitReap

FairSpecExit == InitLsp /\ [][NextExit]_vars /\ FairLsp

(***************************************************************************)
(* Claims about the language-server client.                                *)
(***************************************************************************)
\* C4: with several requests outstanding on one client, each caller
\* receives the response to its own request id, and every response is
\* delivered to exactly one caller.
C4_ResponseGoesToItsCaller ==
    /\ \A t \in Requesters :
          task[t].pc = "returned" => task[t].got.id = task[t].id
    /\ \A t, u \in Requesters :
          (t # u /\ task[t].pc = "returned" /\ task[u].pc = "returned") =>
              task[t].got.id # task[u].got.id

\* C5: a request that was pending when the server process died fails with
\* LanguageServerCrashed and with nothing else.
C5_PendingRequestFailsWithCrashed ==
    \A t \in crashed_pending :
        task[t].pc \in {"get", "blocked", "returned", "LanguageServerCrashed"}

\* C6: exit() always returns: once called it ends, also when the server
\* process has died or is alive and never answers the shutdown request.
C6_ExitReturns ==
    (exit_pc \in {"wait_shutdown", "reap"}) ~> (exit_pc \in {"returned", "raised"})

\* C7: exit() on a client that has no process, because it has exited
\* already or was never started, completes without raising.
C7_ExitWithoutProcessDoesNotRaise ==
    exit_pc # "raised"

\* the exit notification is sent only by a shutdown task that returned the
\* response to the shutdown request of this exit()
ExitSentAfterOwnResponse ==
    lsp_state = "EXITED" =>
        /\ task["shutdown"].pc = "returned"
        /\ task["shutdown"].got = [type |-> "Shutdown", id |-> task["shutdown"].id]

\* C34: exit() sends the exit notification only after the response to its own
\* shutdown request has been received, and never sends it when that response
\* did not arrive; in both cases the subprocess is terminated afterwards.
C34_ExitAfterShutdownResponse ==
    /\ []ExitSentAfterOwnResponse
    /\ (exit_pc = "wait_shutdown") ~> (process # "running")

(***************************************************************************)
(* The language-client manager as a state machine: tasks call get_client,  *)
(* and each await of LspClient.start returns or raises.                    *)
(***************************************************************************)
\* get_client, lines 31-38, up to the await of client.start
GetClient ==
    \E g \in Callers, file_path \in FilePaths :
        LET config == get_server_config(file_path)
            found == RunningClient(running, config)
        IN /\ caller[g].pc # "starting"
           /\ IF config = NoConfig
              THEN /\ caller' = [caller EXCEPT ![g] =
                                    [pc |-> "returned", config |-> config,
                                     client |-> NoClient]]
                   /\ UNCHANGED mclient
              ELSE IF found # NoClient
              THEN \* the cached client is returned as it is; the caller is
                   \* marked when the process of that client has died
                   /\ caller' = [caller EXCEPT ![g] =
                                    [pc |-> IF mclient[found].status = "dead"
                                            THEN "returned_dead"
                                            ELSE "returned",
                                     config |-> config, client |-> found]]
                   /\ UNCHANGED mclient
              ELSE /\ Len(mclient) < MaxClients
                   /\ mclient' = Append(mclient,
                                        [extensions |-> config.extensions,
                                         status |-> "starting"])
                   /\ caller' = [caller EXCEPT ![g] =
                                    [pc |-> "starting", config |-> config,
                                     client |-> Len(mclient) + 1]]
           /\ UNCHANGED <<running, wmVars, edVars, lspVars, bufVars, subVars>>

\* get_client, lines 38-40: client.start has returned
StartReturns ==
    \E g \in Callers :
        /\ caller[g].pc = "starting"
        /\ mclient' = [mclient EXCEPT ![caller[g].client].status = "started"]
        /\ running' = Append(running,
                             [extensions |-> caller[g].config.extensions,
                              client |-> caller[g].client])
        /\ caller' = [caller EXCEPT ![g].pc = "returned"]
        /\ UNCHANGED <<wmVars, edVars, lspVars, bufVars, subVars>>

\* get_client, line 38: client.start has raised, the spawn failed or the
\* Initialized message did not come in time
StartRaises ==
    \E g \in Callers :
        /\ caller[g].pc = "starting"
        /\ mclient' = [mclient EXCEPT ![caller[g].client].status = "failed"]
        /\ caller' = [caller EXCEPT ![g].pc = "raised", ![g].client = NoClient]
        /\ UNCHANGED <<running, wmVars, edVars, lspVars, bufVars, subVars>>

InitMgr == InitLsp

NextMgr ==
    \/ GetClient
    \/ StartReturns
    \/ StartRaises

SpecMgr == InitMgr /\ [][NextMgr]_vars

\* C3: the running set holds at most one client per configuration; of the
\* clients get_client has made for one configuration at most one has a
\* subprocess being started or started; and all callers that were given a
\* client for one configuration were given the same client.
C3_OneClientPerConfiguration ==
    /\ \A i, j \in DOMAIN running :
          i # j => running[i].extensions # running[j].extensions
    /\ \A i, j \in DOMAIN mclient :
          (/\ i # j
           /\ mclient[i].extensions = mclient[j].extensions
           /\ mclient[i].status \in {"starting", "started"})
          => mclient[j].status = "failed"
    /\ \A g, h \in Callers :
          (/\ caller[g].pc = "returned"
           /\ caller[h].pc = "returned"
           /\ caller[g].config # NoConfig
           /\ caller[g].config = caller[h].config)
          => caller[g].client = caller[h].client

(***************************************************************************)
(* The buffer as a state machine: load, focus, text changes and the        *)
(* handling of publishDiagnostics, on top of the client it is bound to.    *)
(***************************************************************************)
DocNotification(method, v) ==
    [kind |-> "notification", method |-> method, id |-> -1, version |-> v]

\* the document notifications sent so far: written, or still in _send_buf
DocSent ==
    doc_recv \o
    [i \in 1..Len(SelectSeq(send_buf, LAMBDA m : m.method \in DocMethods)) |->
        LET m == SelectSeq(send_buf, LAMBDA x : x.method \in DocMethods)[i]
        IN [method |-> m.method, version |-> m.version]]

OpensSent ==
    Len(SelectSeq(DocSent, LAMBDA m : m.method = "textDocument/didOpen"))

\* LspClient.open_document: version=1; did_open of the sansio client asserts
\* that the state is NORMAL
OpenDocument ==
    IF lsp_state = "NORMAL"
    THEN send_buf' = Append(send_buf,
                            DocNotification("textDocument/didOpen", 1))
    ELSE UNCHANGED send_buf

\* FileBuffer.load, lines 139-155, with the client get_client returned; the
\* handler is added and removed again
BufLoad ==
    /\ task["start"].pc = "returned"
    /\ OpensSent < MaxOpens
    /\ buf_client' = "bound"
    /\ OpenDocument
    /\ UNCHANGED <<version, handlers, diagnostics, diag_ready, doc_recv,
                   handled>>
    /\ UNCHANGED <<process, concurrent_tasks, pump, process_gone, lsp_state,
                   id_counter, unanswered, server_recv, wire, new_messages,
                   getters, ready, messages, task, exit_pc, exits,
                   crashed_pending, wmVars, edVars, mgrVars, subVars>>

\* FileBuffer.focus, lines 93-107, with the client get_client returned
BufFocus ==
    /\ task["start"].pc = "returned"
    /\ OpensSent < MaxOpens
    /\ buf_client = "None"
    /\ buf_client' = "bound"
    /\ OpenDocument
    /\ handlers' = IF lsp_state = "NORMAL" THEN handlers + 1 ELSE handlers
    /\ UNCHANGED <<version, diagnostics, diag_ready, doc_recv, handled>>
    /\ UNCHANGED <<process, concurrent_tasks, pump, process_gone, lsp_state,
                   id_counter, unanswered, server_recv, wire, new_messages,
                   getters, ready, messages, task, exit_pc, exits,
                   crashed_pending, wmVars, edVars, mgrVars, subVars>>

\* OnTextChanged with the counter left where it was
OnTextChangedSameVersion(v) ==
    /\ version' = v
    /\ IF lsp_state = "NORMAL"
       THEN send_buf' = Append(send_buf,
                               DocNotification("textDocument/didChange", v))
       ELSE UNCHANGED send_buf

\* FileBuffer._on_text_changed with a client bound: next(self._version) is
\* taken, then change_document asserts that the state is NORMAL
OnTextChanged(v) ==
    /\ version' = v + 1
    /\ IF lsp_state = "NORMAL"
       THEN send_buf' = Append(send_buf,
                               DocNotification("textDocument/didChange", v))
       ELSE UNCHANGED send_buf

\* FileBuffer._on_text_changed
TextChanged ==
    /\ version < MaxVersion
    /\ buf_client = "bound"
    /\ OnTextChanged(version)
    /\ UNCHANGED <<buf_client, handlers, diagnostics, diag_ready, doc_recv,
                   handled>>
    /\ UNCHANGED <<process, concurrent_tasks, pump, process_gone, lsp_state,
                   id_counter, unanswered, server_recv, wire, new_messages,
                   getters, ready, messages, task, exit_pc, exits,
                   crashed_pending, wmVars, edVars, mgrVars, subVars>>

\* ListenForReports without the clear
ListenForReportsAppend(diags, ev) ==
    diags \o SelectSeq(ev, LAMBDA d : d.severity = "ERROR")

\* FileBuffer.listen_for_reports inside `with self._reports`: the list is
\* cleared, then the diagnostics of severity ERROR are appended
ListenForReports(diags, ev) ==
    SelectSeq(ev, LAMBDA d : d.severity = "ERROR")

\* Diagnostic.get_diagnostics, called by FileBuffer.reports
Reports == IF ~diag_ready THEN <<>> ELSE diagnostics

\* LspClient.listen_for_notifications, lines 239-241, dispatching a
\* publishDiagnostics to the registered handler FileBuffer.listen_for_reports
HandleReports ==
    \E ev \in Events :
        /\ handlers > 0
        /\ buf_client = "bound"
        /\ diagnostics' = ListenForReports(diagnostics, ev)
        /\ diag_ready' = TRUE
        /\ handled' = IF Len(handled) < 2 THEN Append(handled, ev)
                      ELSE <<handled[2], ev>>
        /\ UNCHANGED <<version, buf_client, handlers, doc_recv>>
        /\ UNCHANGED <<lspVars, wmVars, edVars, mgrVars, subVars>>

InitBuf == InitLsp

NextBuf ==
    \/ Start
    \/ Get
    \/ SendStdin
    \/ ServerRespond
    \/ ProcessStdout
    \/ ExitCall
    \/ ExitShutdownDone
    \/ ExitReap
    \/ BufLoad
    \/ BufFocus
    \/ TextChanged

SpecBuf == InitBuf /\ [][NextBuf]_vars

NextReports ==
    \/ Start
    \/ Get
    \/ SendStdin
    \/ ServerRespond
    \/ ProcessStdout
    \/ BufLoad
    \/ BufFocus
    \/ HandleReports

SpecReports == InitBuf /\ [][NextReports]_vars

(***************************************************************************)
(* Claims about the buffer.                                                *)
(***************************************************************************)
DidChanges == SelectSeq(DocSent, LAMBDA m : m.method = "textDocument/didChange")

\* C11: the versions of the didChange notifications a buffer sends are
\* strictly increasing in send order, and the counter is never reset: it
\* stays above every version sent.
C11_DidChangeVersionsIncrease ==
    /\ \A i, j \in 1..Len(DidChanges) :
          i < j => DidChanges[i].version < DidChanges[j].version
    /\ \A i \in 1..Len(DidChanges) : DidChanges[i].version < version

C11_Witness ==
    /\ Len(SelectSeq(doc_recv,
                     LAMBDA m : m.method = "textDocument/didChange")) >= 3
    /\ version = 3

\* C12: every didChange carries a version strictly greater than every
\* version sent before it for the document, the version of the didOpen
\* included.
C12_DidChangeAboveAllEarlierVersions ==
    \A i, j \in 1..Len(DocSent) :
        (i < j /\ DocSent[j].method = "textDocument/didChange") =>
            DocSent[i].version < DocSent[j].version

ErrorsOf(ev) == SelectSeq(ev, LAMBDA d : d.severity = "ERROR")

\* C13 as stated: after two successive publishDiagnostics notifications
\* were handled, reports() returns the contents of the second one, each
\* diagnostic once, and nothing else.
C13_ReportsAreSecondNotification ==
    Len(handled) = 2 => Reports = handled[2]

\* C13 amended: after two successive publishDiagnostics notifications were
\* handled, reports() returns the diagnostics of severity ERROR of the second
\* one, in its order and each once; nothing of the first remains and no
\* diagnostic of another severity is returned.
C13_ReportsAreErrorsOfSecond ==
    Len(handled) = 2 =>
        /\ Reports = ErrorsOf(handled[2])
        /\ \A i \in 1..Len(Reports) :
              Reports[i] \in Elems(handled[2]) /\ Reports[i].severity = "ERROR"

C13_Witness ==
    /\ Len(handled) = 2
    /\ \E d \in Elems(ErrorsOf(handled[1])) : d \notin Elems(handled[2])
    /\ Len(ErrorsOf(handled[2])) = 2
    /\ Reports # <<>>

\* C35: whenever a buffer forwards an edit to its bound client through
\* change_document, the client's protocol state is NORMAL, so the assertion
\* in change_document holds, also for edits made after exit() was called on
\* the client.
C35_ChangeDocumentInNormalState ==
    [][TextChanged => lsp_state = "NORMAL"]_vars

\* C31: once load() has bound a client to the buffer, the buffer's
\* publishDiagnostics handler is registered with that client, and it stays
\* registered while the buffer is open, so a publishDiagnostics notification
\* the listener dispatches replaces the buffer's reports.
C31_LoadRegistersHandler ==
    [][BufLoad => (buf_client' = "bound" /\ handlers' > 0)]_vars

(***************************************************************************)
(* The notification subscribers as a state machine.                        *)
(***************************************************************************)
\* EndSubscription with the queue left in the broadcast list
EndSubscriptionKeepQueue(s) ==
    /\ sub' = [sub EXCEPT ![s].pc = "ended", ![s].token = TRUE,
                          ![s].qtask = "none"]
    /\ notification_queues' = notification_queues

\* LspClient._listen_for_notifications, lines 231-232: the generator has
\* ended; the token is set and the queue removed from the broadcast list
EndSubscription(s) ==
    /\ sub' = [sub EXCEPT ![s].pc = "ended", ![s].token = TRUE,
                          ![s].qtask = "none"]
    /\ notification_queues' = RemoveFirst(notification_queues, s)

\* LspClient.listen_for_notifications is called: the queue is registered
\* and the generator runs up to its first asyncio.wait
Subscribe ==
    \E s \in Subscribers :
        /\ sub[s].pc = "idle"
        /\ IF sub[s].token
           THEN \* the while loop is not entered; lines 229-232 in a row
                /\ sub' = [sub EXCEPT ![s].pc = "ended"]
                /\ UNCHANGED notification_queues
           ELSE /\ notification_queues' = Append(notification_queues, s)
                /\ sub' = [sub EXCEPT ![s].pc = "waiting",
                                      ![s].qtask = "pending"]
        /\ UNCHANGED <<squeue, nnote, arrived, delivered>>
        /\ UNCHANGED <<wmVars, edVars, lspVars, mgrVars, bufVars>>

\* the cancellation token of a subscriber is set from outside.  The token
\* task is done before the subscriber runs again, unless the subscriber was
\* already woken by its queue task and runs first
TokenSet ==
    \E s \in Subscribers, first \in BOOLEAN :
        /\ ~sub[s].token
        /\ first => (sub[s].pc = "waiting" /\ sub[s].qtask # "pending")
        /\ sub' = [sub EXCEPT
              ![s].token = TRUE,
              ![s].tokdone = ~first,
              ![s].setat = nnote,
              ![s].cancelled =
                  CASE sub[s].pc = "idle" -> "idle"
                    [] sub[s].pc = "waiting" /\ sub[s].qtask = "pending" ->
                          "blocked"
                    [] sub[s].pc = "waiting" /\ sub[s].qtask = "result" ->
                          "woken"
                    [] sub[s].pc = "waiting" /\ sub[s].qtask = "crashed" ->
                          "failing"
                    [] OTHER -> "over"]
        /\ UNCHANGED <<notification_queues, squeue, nnote, arrived, delivered>>
        /\ UNCHANGED <<wmVars, edVars, lspVars, mgrVars, bufVars>>

\* cancellation_token_task, line 211, completes
TokenTaskRun ==
    \E s \in Subscribers :
        /\ sub[s].token /\ ~sub[s].tokdone
        /\ sub[s].pc = "waiting"
        /\ sub' = [sub EXCEPT ![s].tokdone = TRUE]
        /\ UNCHANGED <<notification_queues, squeue, nnote, arrived, delivered>>
        /\ UNCHANGED <<wmVars, edVars, lspVars, mgrVars, bufVars>>

\* queue_task, line 215: _wrap_coro(queue.get()) completes, with
\* LanguageServerCrashed when the process is gone and with the head of the
\* queue otherwise
QueueTaskDone ==
    \E s \in Subscribers :
        /\ sub[s].pc = "waiting" /\ sub[s].qtask = "pending"
        /\ IF process_gone
           THEN /\ sub' = [sub EXCEPT ![s].qtask = "crashed"]
                /\ UNCHANGED squeue
           ELSE /\ squeue[s] # <<>>
                /\ sub' = [sub EXCEPT ![s].qtask = "result",
                                      ![s].got = Head(squeue[s])]
                /\ squeue' = [squeue EXCEPT ![s] = Tail(@)]
        /\ UNCHANGED <<notification_queues, nnote, arrived, delivered>>
        /\ UNCHANGED <<wmVars, edVars, lspVars, mgrVars, bufVars>>

\* the subscriber runs again after asyncio.wait, lines 216-225, and, in
\* listen_for_notifications, lines 238-241, hands a notification to the
\* handlers and goes round the loop
Resume ==
    \E s \in Subscribers :
        /\ sub[s].pc = "waiting"
        /\ sub[s].qtask # "pending" \/ sub[s].tokdone
        /\ IF sub[s].tokdone
           THEN \* the token task is in done: queue_task is cancelled
                /\ EndSubscription(s)
                /\ UNCHANGED delivered
           ELSE IF sub[s].qtask = "crashed"
           THEN \* queue_task.result() raises; lines 231-232 are not run
                /\ sub' = [sub EXCEPT ![s].pc = "crashed", ![s].qtask = "none"]
                /\ UNCHANGED <<notification_queues, delivered>>
           ELSE /\ delivered' = [delivered EXCEPT ![s] = Append(@, sub[s].got)]
                /\ IF sub[s].token
                   THEN EndSubscription(s)
                   ELSE /\ sub' = [sub EXCEPT ![s].qtask = "pending"]
                        /\ UNCHANGED notification_queues
        /\ UNCHANGED <<squeue, nnote, arrived>>
        /\ UNCHANGED <<wmVars, edVars, lspVars, mgrVars, bufVars>>

\* Broadcast to the first queue of the list alone
BroadcastToFirst(queues, n) ==
    [s \in Subscribers |->
        IF notification_queues # <<>> /\ s = notification_queues[1]
        THEN Append(queues[s], n) ELSE queues[s]]

\* LspClient._process_stdout, lines 117-120: a server notification is put
\* on every queue of the broadcast list
Broadcast(queues, n) ==
    [s \in Subscribers |->
        IF s \in Elems(notification_queues) THEN Append(queues[s], n)
        ELSE queues[s]]

\* the server sends a notification and _process_stdout reads it
ServerNotification ==
    /\ process = "running"
    /\ pump["stdout"] = "running"
    /\ wire = <<>>
    /\ nnote < MaxNotes
    /\ nnote' = nnote + 1
    /\ squeue' = Broadcast(squeue, nnote + 1)
    /\ arrived' = [s \in Subscribers |->
                      IF s \in Elems(notification_queues)
                      THEN Append(arrived[s], nnote + 1) ELSE arrived[s]]
    /\ UNCHANGED <<notification_queues, sub, delivered>>
    /\ UNCHANGED <<wmVars, edVars, lspVars, mgrVars, bufVars>>

InitSub == InitLsp

NextSub ==
    \/ Start
    \/ ServerDies
    \/ ProcessStdoutEOF
    \/ LogStderrEOF
    \/ Subscribe
    \/ TokenSet
    \/ TokenTaskRun
    \/ QueueTaskDone
    \/ Resume
    \/ ServerNotification

SpecSub == InitSub /\ [][NextSub]_vars

\* the event loop runs every task that can run
FairSpecSub ==
    /\ SpecSub
    /\ WF_vars(TokenTaskRun)
    /\ WF_vars(QueueTaskDone)
    /\ WF_vars(Resume)

(***************************************************************************)
(* Claims about the notification subscribers.                              *)
(***************************************************************************)
CancelledWhileListening(s) == sub[s].cancelled \in {"blocked", "woken"}

SubscriptionOver(s) ==
    sub[s].pc = "ended" /\ s \notin Elems(notification_queues)

Taken(s) == IF sub[s].qtask = "result" THEN <<sub[s].got>> ELSE <<>>

IsPrefix(p, q) == Len(p) <= Len(q) /\ SubSeq(q, 1, Len(p)) = p

\* C15: every notification is put on the queue of every subscriber
\* registered when it arrives (arrived records them), and each subscriber
\* is handed them in arrival order: what a listening subscriber was handed,
\* holds and has queued is all that arrived for it, so none is taken by
\* another subscriber and none is removed when another is cancelled.
C15_Broadcast ==
    \A s \in Subscribers :
        /\ IsPrefix(delivered[s], arrived[s])
        /\ sub[s].pc = "waiting" =>
              delivered[s] \o Taken(s) \o squeue[s] = arrived[s]

C15_Witness ==
    /\ delivered["s1"] = <<1, 2>>
    /\ sub["s2"].pc = "ended" /\ sub["s2"].cancelled = "blocked"
    /\ delivered["s2"] = <<1>>

(***************************************************************************)
(* The buffers of a window: EditorWindow and the commands that change      *)
(* which buffers a window shows.                                           *)
(***************************************************************************)
MaxEdits == 2

\* the EditorBuffer objects that the edit command creates; an object is
\* named apart from the file it shows, since one file can be opened twice
EditBuffers == SubSeq(<<"A1", "E1", "A2", "E2">>, 1, MaxEdits)
EditFiles == {"A", "E"}

\* EditorBuffer.get_display_name
DisplayName(buffer) ==
    CASE buffer \in {"A1", "A2"} -> "A"
      [] buffer \in {"E1", "E2"} -> "E"
      [] OTHER -> buffer

\* every EditorBuffer object some constructed window holds
HeldBuffers(s) ==
    UNION {Elems(s.buffers[w]) : w \in 1..s.nwin} \cup
    {s.active_buffer[w] : w \in 1..s.nwin}

\* WindowManager.create_buffer: a new EditorBuffer object for the file
FreshBuffers(s, file) ==
    {b \in Elems(EditBuffers) : DisplayName(b) = file /\ b \notin HeldBuffers(s)}

\* switch_to_buffer without the test that the window holds the buffer
SwitchToBufferUnchecked(s, window, buffer) ==
    [s EXCEPT !.active_buffer[window[2]] = buffer]

\* EditorWindow.switch_to_buffer
SwitchToBuffer(s, window, buffer) ==
    IF buffer \in Elems(s.buffers[window[2]])
    THEN [s EXCEPT !.active_buffer[window[2]] = buffer]
    ELSE s

\* EditorWindow.select_buffer_by_name: the first buffer of that name
SelectBufferByName(s, window, name) ==
    LET bs == s.buffers[window[2]]
        named == {i \in 1..Len(bs) : DisplayName(bs[i]) = name}
    IN IF named = {} THEN s
       ELSE SwitchToBuffer(s, window,
                           bs[CHOOSE i \in named : \A j \in named : i <= j])

\* select_buffer_by_index with the index counted from 1
SelectBufferByIndexFromOne(s, window, index) ==
    IF 1 <= index /\ index <= Len(s.buffers[window[2]])
    THEN SwitchToBuffer(s, window, s.buffers[window[2]][index])
    ELSE s

\* EditorWindow.select_buffer_by_index; index counts from 0
SelectBufferByIndex(s, window, index) ==
    IF 0 <= index /\ index < Len(s.buffers[window[2]])
    THEN SwitchToBuffer(s, window, s.buffers[window[2]][index + 1])
    ELSE s

\* what select_buffer_by_index returns: the buffer, or None
SelectBufferByIndexResult(s, window, index) ==
    IF 0 <= index /\ index < Len(s.buffers[window[2]])
    THEN s.buffers[window[2]][index + 1]
    ELSE NoBuffer


\* the edit command with a file: the active window gets a new buffer and
\* shows it
EditFile(s, buffer) ==
    IF s.active_window = None
    THEN Raised(s)     \* None has no attribute add_buffer
    ELSE Returned(SwitchToBuffer(AddBuffer(s, s.active_window, buffer),
                                 s.active_window, buffer))

\* lines 256-261 of _quit and 334-340 of _delete_buffer: the active buffer
\* leaves the active window, which shows its first buffer or is closed
RemoveActiveBuffer(s) ==
    LET w == s.active_window
        b == s.active_buffer[w[2]]
    IN IF b \notin Elems(s.buffers[w[2]])
       THEN Raised(s)     \* list.remove: ValueError
       ELSE LET s1 == [s EXCEPT !.buffers[w[2]] = RemoveFirst(@, b)] IN
            IF s1.buffers[w[2]] # <<>>
            THEN Returned(SwitchToBuffer(s1, w, s1.buffers[w[2]][1]))
            ELSE CloseWindow(s1, w)

\* the quit command without the test for unsaved changes
QuitForced(s, unsaved) ==
    IF s.active_window = None THEN Returned(s)
    ELSE LET r == RemoveActiveBuffer(s) IN
         IF r.raised THEN r
         ELSE IF r.s.root # None /\ r.s.active_window = None
         THEN Returned([r.s EXCEPT !.active_window =
                                      FindNextWindow(r.s.children, r.s.root)])
         ELSE r

\* the quit command; unsaved says that the active buffer has changed and
\* the command was given without !
Quit(s, unsaved) ==
    IF s.active_window = None \/ unsaved THEN Returned(s)
    ELSE LET r == RemoveActiveBuffer(s) IN
         IF r.raised THEN r
         ELSE IF r.s.root # None /\ r.s.active_window = None
         THEN Returned([r.s EXCEPT !.active_window =
                                      FindNextWindow(r.s.children, r.s.root)])
         ELSE r

\* the quit command, lines 263-268: whether get_app().exit() is called
QuitExits(s, unsaved) ==
    LET r == Quit(s, unsaved) IN
    /\ s.active_window # None
    /\ ~unsaved
    /\ ~r.raised
    /\ \/ r.s.root = None
       \/ r.s.active_window = None

\* the bdelete command
DeleteBuffer(s, unsaved) ==
    IF s.active_window = None \/ unsaved THEN Returned(s)
    ELSE RemoveActiveBuffer(s)

\* the quit-all command without ! while some buffer has changed: the
\* active window is asked to show the first changed buffer of the layout
QuitAllUnsaved(s, first_unsaved) ==
    IF s.active_window = None THEN Raised(s)
    ELSE Returned(SwitchToBuffer(s, s.active_window, first_unsaved))

AddBufferAct ==
    \E window \in Windows, file \in EditFiles :
        \E buffer \in FreshBuffers(Cur, file) :
            /\ Install(AddBuffer(Cur, window, buffer))
            /\ Record(Op("add_buffer", window, TRUE, FALSE))
            /\ UNCHANGED <<lspVars, mgrVars, bufVars, subVars, edVars>>
            /\ run' = NoRun

SwitchToBufferAct ==
    \E window \in Windows :
        \E buffer \in HeldBuffers(Cur) :
            /\ Install(SwitchToBuffer(Cur, window, buffer))
            /\ Record(Op("switch_to_buffer", window, TRUE, FALSE))
            /\ UNCHANGED <<lspVars, mgrVars, bufVars, subVars, edVars>>
            /\ run' = NoRun

SelectBufferByNameAct ==
    \E window \in Windows, name \in Elems(FileNames) \cup EditFiles :
        /\ Install(SelectBufferByName(Cur, window, name))
        /\ Record(Op("select_buffer_by_name", window, TRUE, FALSE))
        /\ UNCHANGED <<lspVars, mgrVars, bufVars, subVars, edVars>>
        /\ run' = NoRun

SelectBufferByIndexAct ==
    \E window \in Windows, index \in -1..(MaxFiles + MaxEdits) :
        /\ Install(SelectBufferByIndex(Cur, window, index))
        /\ Record(Op("select_buffer_by_index", window, TRUE, FALSE))
        /\ UNCHANGED <<lspVars, mgrVars, bufVars, subVars, edVars>>
        /\ run' = NoRun

EditFileAct ==
    \E file \in EditFiles :
        \E buffer \in FreshBuffers(Cur, file) :
            \E r \in {EditFile(Cur, buffer)} :
            /\ Install(r.s)
            /\ Record(Op("edit", None, TRUE, r.raised))
            /\ UNCHANGED <<lspVars, mgrVars, bufVars, subVars, edVars>>
            /\ run' = NoRun

QuitAct ==
    \E unsaved \in BOOLEAN :
        \E r \in {Quit(Cur, unsaved)} :
        /\ Install(r.s)
        /\ Record(Op("quit", None, TRUE, r.raised))
        /\ UNCHANGED <<lspVars, mgrVars, bufVars, subVars, edVars>>
        /\ run' = NoRun

DeleteBufferAct ==
    \E unsaved \in BOOLEAN :
        \E r \in {DeleteBuffer(Cur, unsaved)} :
        /\ Install(r.s)
        /\ Record(Op("bdelete", None, TRUE, r.raised))
        /\ UNCHANGED <<lspVars, mgrVars, bufVars, subVars, edVars>>
        /\ run' = NoRun

QuitAllUnsavedAct ==
    \E w \in {n \in 1..nwin : W(n) \in Elems(GetAllWindows(children, root))} :
        \E first_unsaved \in Elems(buffers[w]) :
            \E r \in {QuitAllUnsaved(Cur, first_unsaved)} :
            /\ Install(r.s)
            /\ Record(Op("qall", None, TRUE, r.raised))
            /\ UNCHANGED <<lspVars, mgrVars, bufVars, subVars, edVars>>
            /\ run' = NoRun

InitEW == InitWM

NextEW ==
    \/ AddBufferAct
    \/ SwitchToBufferAct
    \/ SelectBufferByNameAct
    \/ SelectBufferByIndexAct
    \/ EditFileAct
    \/ QuitAct
    \/ DeleteBufferAct
    \/ QuitAllUnsavedAct

SpecEW == InitEW /\ [][NextEW]_vars

(***************************************************************************)
(* Claims about the buffers of a window.                                   *)
(***************************************************************************)
\* C16: every window reachable from the root shows one of its own buffers:
\* its active_buffer is an element of its buffers list.
C16_ActiveBufferIsOwn ==
    \A w \in Elems(GetAllWindows(children, root)) :
        IsWindow(w) => active_buffer[w[2]] \in Elems(buffers[w[2]])

\* the first window lost the buffer it was started on to quit or bdelete,
\* holds a buffer the edit command gave it and shows its first buffer
C16_Witness ==
    /\ W(1) \in Elems(GetAllWindows(children, root))
    /\ Len(buffers[1]) >= 2
    /\ buffers[1][1] \notin {"A", "untitled"}
    /\ active_buffer[1] = buffers[1][1]
    /\ \E b \in Elems(EditBuffers) : b \in Elems(buffers[1])

(***************************************************************************)
(* Claims about moving the focus.                                          *)
(***************************************************************************)
\* the windows before and after a window in the cyclic pre-order list
NextLeaf(windows, w) == windows[(IndexOf(windows, w) % Len(windows)) + 1]
PreviousLeaf(windows, w) ==
    windows[((IndexOf(windows, w) - 2) % Len(windows)) + 1]

SameTree(s) == s.root = root /\ s.children = children

\* C17: focus_next_window and focus_previous_window never change the tree;
\* with no window they leave the whole state as it is; while active_window
\* is a leaf, focus_next_window moves it to the next leaf of the pre-order
\* list and from the last leaf to the first, focus_previous_window moves it
\* the opposite way and from the first leaf to the last; and
\* focus_next_window followed by focus_previous_window restores
\* active_window.
C17_FocusCycles ==
    LET windows == TreeWindows
        next == FocusNextWindow(Cur)
        previous == FocusPreviousWindow(Cur)
        back == FocusPreviousWindow(next.s)
    IN /\ ~next.raised /\ ~previous.raised /\ ~back.raised
       /\ SameTree(next.s) /\ SameTree(previous.s)
       /\ back.s.active_window = active_window
       /\ windows = <<>> => next.s = Cur /\ previous.s = Cur
       /\ active_window \in Elems(windows) =>
             /\ next.s.active_window = NextLeaf(windows, active_window)
             /\ previous.s.active_window =
                    PreviousLeaf(windows, active_window)

\* the focus is on the last of at least three leaves, so that
\* focus_next_window wraps to the first, and a step before on the first
C17_Witness ==
    /\ Len(TreeWindows) >= 3
    /\ active_window = TreeWindows[Len(TreeWindows)]
    /\ FocusNextWindow(Cur).s.active_window = TreeWindows[1]
    /\ FocusPreviousWindow(FocusNextWindow(Cur).s).s.active_window =
           active_window
    /\ hist = <<Overflow>>

(***************************************************************************)
(* Claims about failing calls.                                             *)
(***************************************************************************)
SameLayout(s) ==
    /\ s.root = root
    /\ s.children = children
    /\ s.active_window = active_window

\* C18: close_window(w) for a window w that is not in the tree, the empty
\* tree (root is None) included, raises no error and leaves root, every
\* children list and active_window as they were.
C18_CloseAbsentWindowIsNoOp ==
    \A w \in Windows :
        w \notin Elems(TreeWindows) =>
            LET r == CloseWindow(Cur, w) IN ~r.raised /\ SameLayout(r.s)

\* split(is_horizontal=..., new_buffer=...) with a buffer given and no
\* target: the active window is split; the call may raise
SplitBufferAct ==
    \E horizontal \in BOOLEAN, new_buffer \in {"A"} :
        LET r == Split(Cur, None, horizontal, new_buffer) IN
        /\ nwin < MaxWindows
        /\ Install(r.s)
        /\ Record(Op("split", None, horizontal, r.raised))
        /\ UNCHANGED <<lspVars, mgrVars, bufVars, subVars, edVars>>
        /\ run' = NoRun

InitAtomic == InitWM

NextAtomic ==
    \/ SplitRaises
    \/ SplitBufferAct
    \/ CloseWindowAct

SpecAtomic == InitAtomic /\ [][NextAtomic]_vars

\* C19: split and close_window are atomic: a call that fails with an
\* exception leaves root, every children list and active_window as they
\* were before the call.
C19_FailedCallChangesNothing ==
    /\ \A w \in Windows \cup {None}, horizontal \in BOOLEAN,
          new_buffer \in {NoBuffer, "A"} :
          LET r == Split(Cur, w, horizontal, new_buffer) IN
          r.raised => SameLayout(r.s)
    /\ \A w \in Windows :
          LET r == CloseWindow(Cur, w) IN r.raised => SameLayout(r.s)

(***************************************************************************)
(* The manager while server processes die.                                 *)
(***************************************************************************)
\* the server process of a started client exits: LspClient._process_stdout
\* reads end of file and sets _process_gone; nothing tells the manager,
\* whose _running list is left as it is
ClientProcessDies ==
    \E i \in DOMAIN mclient :
        /\ mclient[i].status = "started"
        /\ mclient' = [mclient EXCEPT ![i].status = "dead"]
        /\ UNCHANGED <<running, caller, wmVars, edVars, lspVars, bufVars, subVars>>

InitCrash == InitMgr

NextCrash ==
    \/ GetClient
    \/ StartReturns
    \/ StartRaises
    \/ ClientProcessDies

SpecCrash == InitCrash /\ [][NextCrash]_vars

\* C20: get_client never returns a cached client whose server process has
\* died: after the death the cached entry is not used and a new server is
\* started.
C20_DeadClientIsNotReturned ==
    \A g \in Callers : caller[g].pc # "returned_dead"


(***************************************************************************)
(* SnoEdit opening, saving, editing and closing FileBuffers.               *)
(***************************************************************************)
MaxFileBuffers == 2
MaxSent == 3

DocNote(client, method, path) ==
    [client |-> client, method |-> method, path |-> path]

\* FileBuffer.__init__, lines 19-46
NewFileBuffer(path, list) ==
    [NoFileBuffer EXCEPT !.path = path, !.name = <<-1, path>>,
                         !.index = IF list # <<>> THEN Len(list) - 1 ELSE 0]

\* FileBuffer._is_new, lines 52-54
IsNew(d, b) == ~d[b.path].exists

\* FileBuffer.saved, lines 85-87
Saved(b) == b.saved_text = b.text

\* FileBuffer.load, lines 129-138: the file is read unless the path is new;
\* only PermissionError is caught. The field persisted is history: the text
\* last read from the file or written to it by a save that returned true.
LoadFile(d, b) ==
    LET content == d[b.path].content IN
    IF IsNew(d, b) THEN [buf |-> b, raised |-> FALSE]
    ELSE IF d[b.path].mode = "rw"
    THEN [buf |-> [b EXCEPT !.saved_text = content, !.text = content,
                            !.persisted = content],
          raised |-> FALSE]
    ELSE IF d[b.path].mode = "EACCES"
    THEN [buf |-> [b EXCEPT !.read_only = TRUE, !.saved_text = content,
                            !.text = content, !.persisted = content],
          raised |-> FALSE]
    ELSE [buf |-> b, raised |-> TRUE]

\* FileBuffer.load, lines 142-149: the client is bound and the document opened
BindClient(b, client) == [b EXCEPT !.lsp_client = client]

\* SnoEdit.refresh_layout, lines 408-413: every listed buffer is reindexed
Reindex(fb, list) ==
    [i \in DOMAIN fb |->
        IF i \in Elems(list) THEN [fb[i] EXCEPT !.index = IndexOf(list, i) - 1]
        ELSE fb[i]]

\* SnoEdit.add_buffer, lines 306-315
SnoEditAddBuffer(fb, list, active, b) ==
    LET named == IF b.name \in {fb[i].name : i \in Elems(list)}
                 THEN [b EXCEPT !.name = <<b.index, b.path>>]
                 ELSE b
        id == Len(fb) + 1
        list2 == IF list = <<>> THEN <<id>>
                 ELSE InsertAt(list, fb[active].index + 2, id)
    IN [fbuf |-> Reindex(Append(fb, named), list2), ed_buffers |-> list2,
        ed_active |-> id]

\* SnoEdit.active_buffer.path
ActivePath ==
    IF ed_active = DebugBuffer THEN <<"*debug*", "">> ELSE fbuf[ed_active].path

\* create_file_buffer, lines 329-330, once get_client has returned `client`
LoadReturns(b, client) ==
    LET bound == IF client = NoClient THEN b ELSE BindClient(b, client)
        added == SnoEditAddBuffer(fbuf, ed_buffers, ed_active, bound)
    IN /\ fbuf' = added.fbuf
       /\ ed_buffers' = added.ed_buffers
       /\ ed_active' = added.ed_active
       /\ lsp_sent' = IF client = NoClient THEN lsp_sent
                      ELSE Append(lsp_sent,
                                  DocNote(client, "textDocument/didOpen", b.path))
       /\ ed_pc' = "idle"
       /\ ed_pending' = NoFileBuffer
       /\ ecall' = Call("create_file_buffer", added.ed_active, b.path, "added",
                        "returned")

\* create_file_buffer, lines 319-333, up to the await of client.start
CreateFileBufferAct ==
    \E path \in EdPaths :
        LET held == {i \in DOMAIN ed_buffers : fbuf[ed_buffers[i]].path = path}
            r == LoadFile(disk, NewFileBuffer(path, ed_buffers))
            config == get_server_config(path)
            found == RunningClient(running, config)
        IN /\ ed_pc = "idle"
           /\ Len(fbuf) < MaxFileBuffers
           /\ Len(lsp_sent) < MaxSent
           /\ IF held # {} /\ path # ActivePath
              THEN \* lines 323-327: the open buffer is selected
                   LET first == CHOOSE i \in held : \A j \in held : i <= j IN
                   /\ ed_active' = ed_buffers[first]
                   /\ ecall' = Call("create_file_buffer", ed_buffers[first],
                                    path, "selected", "none")
                   /\ UNCHANGED <<disk, fbuf, ed_buffers, ed_pc, ed_pending,
                                  lsp_sent, mgrVars>>
              ELSE IF r.raised
              THEN \* load raised while it read the file: line 331 drops it
                   /\ ecall' = Call("create_file_buffer", 0, path, "raised",
                                    "raised")
                   /\ UNCHANGED <<disk, fbuf, ed_buffers, ed_active, ed_pc,
                                  ed_pending, lsp_sent, mgrVars>>
              ELSE IF config = NoConfig \/ found # NoClient
              THEN /\ LoadReturns(r.buf, found)
                   /\ UNCHANGED <<disk, mgrVars>>
              ELSE \* manager.py lines 37-38: a client is made and started
                   /\ Len(mclient) < MaxClients
                   /\ mclient' = Append(mclient,
                                        [extensions |-> config.extensions,
                                         status |-> "starting"])
                   /\ ed_pc' = "starting"
                   /\ ed_pending' = r.buf
                   /\ ecall' = Call("create_file_buffer", 0, path, "awaiting",
                                    "awaiting")
                   /\ UNCHANGED <<disk, fbuf, ed_buffers, ed_active, lsp_sent,
                                  running, caller>>
           /\ UNCHANGED <<wmVars, lspVars, bufVars, subVars>>

\* client.start has returned: manager.py lines 39-40, buffer.py lines 142-155,
\* snoedit.py line 330
CreateFileBufferStartReturns ==
    /\ ed_pc = "starting"
    /\ mclient' = [mclient EXCEPT ![Len(mclient)].status = "started"]
    /\ running' = Append(running,
                         [extensions |-> mclient[Len(mclient)].extensions,
                          client |-> Len(mclient)])
    /\ LoadReturns(ed_pending, Len(mclient))
    /\ UNCHANGED <<disk, caller, wmVars, lspVars, bufVars, subVars>>

\* client.start has raised (the spawn failed, or no Initialized message came
\* within the timeout): the exception leaves get_client and load, and
\* create_file_buffer catches it at line 331
CreateFileBufferStartRaises ==
    /\ ed_pc = "starting"
    /\ mclient' = [mclient EXCEPT ![Len(mclient)].status = "failed"]
    /\ ed_pc' = "idle"
    /\ ed_pending' = NoFileBuffer
    /\ ecall' = Call("create_file_buffer", 0, ecall.path, "raised", "raised")
    /\ UNCHANGED <<disk, fbuf, ed_buffers, ed_active, lsp_sent, running, caller,
                   wmVars, lspVars, bufVars, subVars>>

\* FileBuffer.save, lines 119-120: didSave goes out first
SaveDocument(sent, b) ==
    IF b.lsp_client # NoClient
    THEN Append(sent, DocNote(b.lsp_client, "textDocument/didSave", b.path))
    ELSE sent

\* save_current_buffer, lines 354-358, with FileBuffer.save, lines 118-126
SaveCurrentBufferAct ==
    LET b == fbuf[ed_active] IN
    /\ ed_pc = "idle"
    /\ ed_active # DebugBuffer
    /\ Len(lsp_sent) < MaxSent
    /\ lsp_sent' = SaveDocument(lsp_sent, b)
    /\ IF b.read_only
       THEN \* line 122
            /\ ecall' = Call("save", ed_active, b.path, "false", "none")
            /\ UNCHANGED <<disk, fbuf>>
       ELSE IF disk[b.path].mode # "rw"
       THEN \* line 123: open raises
            /\ ecall' = Call("save", ed_active, b.path, "raised", "none")
            /\ UNCHANGED <<disk, fbuf>>
       ELSE \/ \* lines 124-126: the text is written
               /\ disk' = [disk EXCEPT ![b.path] = Present("rw", b.text)]
               /\ fbuf' = [fbuf EXCEPT ![ed_active].saved_text = b.text,
                                       ![ed_active].persisted = b.text]
               /\ ecall' = Call("save", ed_active, b.path, "true", "none")
            \/ \* line 125 or the close of the file raises (the disk is
               \* full): open has truncated the file, line 124 has run
               /\ disk' = [disk EXCEPT ![b.path] = Present("rw", "")]
               /\ fbuf' = [fbuf EXCEPT ![ed_active].saved_text = b.text]
               /\ ecall' = Call("save", ed_active, b.path, "raised", "none")
    /\ UNCHANGED <<ed_buffers, ed_active, ed_pc, ed_pending, mgrVars, wmVars,
                   lspVars, bufVars, subVars>>

\* the user edits the active buffer: Buffer.text changes and
\* FileBuffer._on_text_changed, lines 182-189, runs
EditTextAct ==
    \E text \in Texts :
        LET b == fbuf[ed_active] IN
        /\ ed_pc = "idle"
        /\ ed_active # DebugBuffer
        /\ ~b.read_only
        /\ text # b.text
        /\ Len(lsp_sent) < MaxSent
        /\ fbuf' = [fbuf EXCEPT ![ed_active].text = text]
        /\ lsp_sent' = IF b.lsp_client # NoClient
                       THEN Append(lsp_sent,
                                   DocNote(b.lsp_client,
                                           "textDocument/didChange", b.path))
                       ELSE lsp_sent
        /\ ecall' = Call("edit", ed_active, b.path, "none", "none")
        /\ UNCHANGED <<disk, ed_buffers, ed_active, ed_pc, ed_pending, mgrVars,
                       wmVars, lspVars, bufVars, subVars>>

\* FileBuffer.close, lines 157-159, without the test for a bound client
CloseUnbound(sent, b) ==
    Append(sent, DocNote(b.lsp_client, "textDocument/didClose", b.path))

\* FileBuffer.close, lines 157-159
Close(sent, b) ==
    IF b.lsp_client # NoClient
    THEN Append(sent, DocNote(b.lsp_client, "textDocument/didClose", b.path))
    ELSE sent

\* close_current_buffer, lines 365-385, on the active buffer
CloseCurrentBufferAct ==
    \E forced \in BOOLEAN :
        LET b == fbuf[ed_active]
            index == b.index
            popped == SubSeq(ed_buffers, 1, index) \o
                      SubSeq(ed_buffers, index + 2, Len(ed_buffers))
        IN /\ ed_pc = "idle"
           /\ ed_active # DebugBuffer
           /\ Len(lsp_sent) < MaxSent
           /\ IF Saved(b) \/ forced
              THEN IF Len(ed_buffers) = 1
                   THEN \* lines 370-373: the application exits
                        /\ lsp_sent' = Close(lsp_sent, fbuf[ed_buffers[1]])
                        /\ ed_pc' = "exited"
                        /\ ecall' = Call("close", ed_buffers[1], b.path, "true",
                                         "none")
                        /\ UNCHANGED <<fbuf, ed_buffers, ed_active>>
                   ELSE \* lines 375-380; the popped FileBuffer is released
                        /\ lsp_sent' = Close(lsp_sent, b)
                        /\ ed_buffers' = popped
                        /\ ed_active' = IF index = 0 THEN popped[Len(popped)]
                                        ELSE popped[index]
                        /\ fbuf' = Reindex([fbuf EXCEPT ![ed_active] =
                                                            NoFileBuffer],
                                            popped)
                        /\ ecall' = Call("close", ed_active, b.path, "true",
                                         "none")
                        /\ UNCHANGED ed_pc
              ELSE IF Len(ed_buffers) > 1
              THEN \* line 383: select_buffer runs, and awaiting its None
                   \* raises TypeError
                   /\ ed_active' = ed_buffers[index + 1]
                   /\ fbuf' = Reindex(fbuf, ed_buffers)
                   /\ ecall' = Call("close_refused", ed_active, b.path,
                                    "raised", "none")
                   /\ UNCHANGED <<lsp_sent, ed_buffers, ed_pc>>
              ELSE \* lines 384-385
                   /\ ecall' = Call("close_refused", ed_active, b.path, "false",
                                    "none")
                   /\ UNCHANGED <<lsp_sent, fbuf, ed_buffers, ed_active, ed_pc>>
           /\ UNCHANGED <<disk, ed_pending, mgrVars, wmVars, lspVars, bufVars,
                          subVars>>

InitEd ==
    \E d \in Disks :
        /\ ClientConstructed
        /\ ManagerConstructed
        /\ BufferConstructed
        /\ SubscribersConstructed
        /\ EditorConstructedOn(d)
        /\ LET s == InitLayout(<<>>, FALSE, FALSE) IN
           /\ root = s.root
           /\ children = s.children
           /\ is_horizontal = s.is_horizontal
           /\ active_window = s.active_window
           /\ nwin = s.nwin
           /\ buffers = s.buffers
           /\ active_buffer = s.active_buffer
        /\ hist = <<>>
        /\ run = NoRun

NextEd ==
    \/ CreateFileBufferAct
    \/ CreateFileBufferStartReturns
    \/ CreateFileBufferStartRaises
    \/ SaveCurrentBufferAct
    \/ EditTextAct
    \/ CloseCurrentBufferAct

SpecEd == InitEd /\ [][NextEd]_vars

\* the buffers of the editor's list that hold a path
Listed(path) == {i \in Elems(ed_buffers) : fbuf[i].path = path}

\* a step that is a call of create_file_buffer in which client.start raised
StartFailed ==
    /\ ecall'.op = "create_file_buffer"
    /\ ecall'.result = "raised"
    /\ ed_pc = "starting"

\* C21: when the language server fails to start while a file is being
\* opened, the file's buffer is still added to the editor's buffer list,
\* with the file's content and no client bound, and the failed client is not
\* in the manager's running set.
C21_FailedStartStillOpens ==
    [][StartFailed =>
        /\ \E i \in Elems(ed_buffers') \ Elems(ed_buffers) :
                /\ fbuf'[i].path = ecall'.path
                /\ fbuf'[i].lsp_client = NoClient
                /\ fbuf'[i].text = disk[ecall'.path].content
        /\ \A i \in DOMAIN running' : running'[i].client # Len(mclient)]_vars

\* a step that is a call of save() on the active buffer
SaveStep == ecall'.op = "save"

\* C22: save() on a read-only buffer returns false and has no other effect:
\* the file, the buffer (its saved snapshot included) and the notifications
\* sent are as before; and a didSave is sent only by a save that wrote the
\* file, that is one that returned true.
C22_ReadOnlySaveHasNoEffect ==
    [][SaveStep =>
        /\ fbuf[ed_active].read_only =>
                /\ ecall'.result = "false"
                /\ disk' = disk
                /\ fbuf' = fbuf
                /\ lsp_sent' = lsp_sent
        /\ lsp_sent' # lsp_sent => ecall'.result = "true"]_vars

\* C23: after a save() whose write failed, saved is false whenever the
\* buffer's text differs from the text last persisted; after a save() that
\* returned true, saved is true.
C23_FailedSaveStaysDirty ==
    ecall.op = "save" =>
        /\ (ecall.result = "raised"
                /\ fbuf[ecall.buf].text # fbuf[ecall.buf].persisted)
            => ~Saved(fbuf[ecall.buf])
        /\ ecall.result = "true" => Saved(fbuf[ecall.buf])

\* a step that is a call of close() on the buffer ecall'.buf
CloseStep == ecall'.op = "close"

\* C24: close() of a buffer sends exactly one didClose for its document
\* when a client is bound and nothing otherwise; the manager's running set
\* and every client are as before, and every other buffer of the list keeps
\* its client, which is still started and in the running set.
C24_CloseSendsOneDidClose ==
    [][CloseStep =>
        LET b == fbuf[ecall'.buf] IN
        /\ lsp_sent' = IF b.lsp_client # NoClient
                       THEN Append(lsp_sent,
                                   DocNote(b.lsp_client,
                                           "textDocument/didClose", b.path))
                       ELSE lsp_sent
        /\ running' = running
        /\ mclient' = mclient
        /\ \A i \in Elems(ed_buffers') :
                /\ fbuf'[i].lsp_client = fbuf[i].lsp_client
                /\ fbuf[i].lsp_client # NoClient =>
                        /\ mclient'[fbuf[i].lsp_client].status = "started"
                        /\ \E k \in DOMAIN running' :
                                running'[k].client = fbuf[i].lsp_client]_vars

\* a bound buffer was closed while another buffer of the list has its client
C24_Witness ==
    /\ ecall.op = "close"
    /\ lsp_sent # <<>>
    /\ LET last == lsp_sent[Len(lsp_sent)] IN
       /\ last.method = "textDocument/didClose"
       /\ last.path = ecall.path
       /\ \E i \in Elems(ed_buffers) :
               /\ fbuf[i].lsp_client = last.client
               /\ fbuf[i].path # last.path

\* C25: load() of a buffer whose path does not exist raises nothing and
\* leaves empty text with is_new true; load() of an existing file that cannot
\* be opened for writing raises nothing and leaves the file's content with
\* read_only true.
C25_LoadOfNewOrUnwritableFile ==
    (ecall.op = "create_file_buffer" /\ ecall.load \in {"returned", "raised"})
    => /\ ~disk[ecall.path].exists =>
            /\ ecall.load = "returned"
            /\ fbuf[ecall.buf].text = ""
            /\ IsNew(disk, fbuf[ecall.buf])
       /\ (disk[ecall.path].exists /\ disk[ecall.path].mode # "rw") =>
            /\ ecall.load = "returned"
            /\ fbuf[ecall.buf].text = disk[ecall.path].content
            /\ fbuf[ecall.buf].read_only

(***************************************************************************)
(* The tree after split and close_window, as seen from every reachable     *)
(* layout: the call is applied to the current layout and its result is     *)
(* compared with the layout it started from.                               *)
(***************************************************************************)
InitTree == InitWM

NextTree ==
    \/ SplitAct
    \/ CloseWindowAct

SpecTree == InitTree /\ [][NextTree]_vars

\* every container of `before` but `parent` is in `after`, with the children
\* and the orientation it had
OtherContainersKept(s, before, after, parent) ==
    \A c \in before \ {parent} :
        /\ c \in after
        /\ s.children[c[2]] = children[c[2]]
        /\ s.is_horizontal[c[2]] = is_horizontal[c[2]]

\* C26: split(target, o) on a target whose immediate parent has orientation
\* o inserts the new window directly after target in that parent's children,
\* keeps the order of the other children and creates no container.
C26_SplitSameOrientationInserts ==
    \A before \in {TreeContainers} :
        \A target \in Elems(TreeWindows) :
            \A parent \in {FindParent(children, root, target)} :
                parent # None =>
                    \A r \in {Split(Cur, target, is_horizontal[parent[2]],
                                     NoBuffer)} :
                        \A after \in {Containers(r.s.children, r.s.root)} :
                            LET kids == children[parent[2]]
                                index == IndexOf(kids, target)
                            IN /\ ~r.raised
                               /\ r.s.children[parent[2]] =
                                      SubSeq(kids, 1, index) \o
                                      <<W(nwin + 1)>> \o
                                      SubSeq(kids, index + 1, Len(kids))
                               /\ r.s.is_horizontal[parent[2]] =
                                      is_horizontal[parent[2]]
                               /\ r.s.root = root
                               /\ after = before
                               /\ OtherContainersKept(r.s, before, after,
                                                      parent)

\* a split with the orientation of the parent has put its window between
\* the target and a later child of the parent
C26_Witness ==
    /\ run.target # None
    /\ Len(run.made) = 1
    /\ LET kids == children[run.parent[2]]
           index == IndexOf(kids, run.target)
       IN /\ Len(kids) > index + 1
          /\ kids[index + 1] = run.made[1]

\* C27: split(target, o) on a target whose immediate parent has the other
\* orientation puts, at the index of target in the parent's children, a new
\* container of orientation o with children [target, new window]; no other
\* node changes.
C27_SplitOtherOrientationNests ==
    \A before \in {TreeContainers} :
        \A target \in Elems(TreeWindows) :
            \A parent \in {FindParent(children, root, target)} :
                parent # None =>
                    \A r \in {Split(Cur, target, ~is_horizontal[parent[2]],
                                     NoBuffer)} :
                        \A after \in {Containers(r.s.children, r.s.root)} :
                            LET kids == children[parent[2]]
                                index == IndexOf(kids, target)
                            IN /\ ~r.raised
                               /\ \E c \in after \ before :
                                      /\ after \ before = {c}
                                      /\ r.s.children[parent[2]] =
                                             [kids EXCEPT ![index] = c]
                                      /\ r.s.is_horizontal[c[2]] =
                                             ~is_horizontal[parent[2]]
                                      /\ r.s.children[c[2]] =
                                             <<target, W(nwin + 1)>>
                               /\ r.s.is_horizontal[parent[2]] =
                                      is_horizontal[parent[2]]
                               /\ r.s.root = root
                               /\ OtherContainersKept(r.s, before, after,
                                                      parent)

\* a split with the other orientation has nested its target, which was not
\* the first child of its parent
C27_Witness ==
    /\ hist # <<>>
    /\ hist # <<Overflow>>
    /\ hist[Len(hist)].op = "split"
    /\ \E p, c \in TreeContainers :
          /\ Len(children[p[2]]) >= 2
          /\ children[p[2]][2] = c
          /\ is_horizontal[c[2]] # is_horizontal[p[2]]
          /\ children[c[2]] = <<hist[Len(hist)].window, W(nwin)>>

\* the first window of the pre-order traversal, None when there is none
FirstWindow(windows) == IF windows = <<>> THEN None ELSE windows[1]

\* C28: close_window(w) on a window of the tree removes exactly w: the
\* pre-order traversal of the result is the old one without w. If w was the
\* active window, the active window becomes the first window of the new
\* traversal; otherwise the active window is unchanged.
C28_CloseRemovesExactlyTheWindow ==
    \A windows \in {TreeWindows} :
        \A w \in Elems(windows) :
            \A r \in {CloseWindow(Cur, w)} :
                \A left \in {GetAllWindows(r.s.children, r.s.root)} :
                    /\ left = Without(windows, w)
                    /\ active_window = w =>
                            r.s.active_window = FirstWindow(left)
                    /\ active_window # w => r.s.active_window = active_window

\* the window a split has just made, which is the active one, has been
\* closed, and the focus is on the first of the windows left
C28_Witness ==
    /\ hist # <<Overflow>>
    /\ Len(hist) >= 2
    /\ hist[Len(hist) - 1].op = "split"
    /\ LET last == hist[Len(hist)] IN
       /\ last.op = "close_window"
       /\ ~last.raised
       /\ last.window = W(nwin)
       /\ last.window \notin Elems(TreeWindows)
       /\ Len(TreeWindows) >= 2
       /\ active_window = TreeWindows[1]

\* C29: no container reachable from root has zero children, and once no
\* window is left in the tree root and active_window are None.
C29_NoEmptyContainer ==
    /\ \A c \in TreeContainers : children[c[2]] # <<>>
    /\ TreeWindows = <<>> => (root = None /\ active_window = None)

(***************************************************************************)
(* Claims about selecting a buffer of a window.                            *)
(***************************************************************************)
\* the layout with `window` showing `buffer`
Showing(window, buffer) == [Cur EXCEPT !.active_buffer[window[2]] = buffer]

\* C30: switch_to_buffer(b) with a buffer the window does not hold changes
\* nothing; select_buffer_by_index with an index outside 0..len(buffers)-1
\* returns None and changes nothing, and with an index inside it returns
\* buffers[index] and makes it the active buffer, as switch_to_buffer does.
C30_SelectingABuffer ==
    \A w \in Windows :
        /\ \A b \in HeldBuffers(Cur) \cup Elems(EditBuffers) :
               b \notin Elems(buffers[w[2]]) => SwitchToBuffer(Cur, w, b) = Cur
        /\ \A index \in -1..(MaxFiles + MaxEdits) :
               IF index < 0 \/ index > Len(buffers[w[2]]) - 1
               THEN /\ SelectBufferByIndex(Cur, w, index) = Cur
                    /\ SelectBufferByIndexResult(Cur, w, index) = NoBuffer
               ELSE LET b == buffers[w[2]][index + 1] IN
                    /\ SelectBufferByIndex(Cur, w, index) = Showing(w, b)
                    /\ SwitchToBuffer(Cur, w, b) = Showing(w, b)
                    /\ SelectBufferByIndexResult(Cur, w, index) = b

\* calls on the windows have left a window that holds two buffers or more
\* and shows one that is not its first, while another window holds a buffer
\* that this window does not
C30_Witness ==
    /\ hist = <<Overflow>>
    /\ \E w, v \in Elems(TreeWindows) :
          /\ Len(buffers[w[2]]) >= 2
          /\ active_buffer[w[2]] \in Elems(buffers[w[2]])
          /\ active_buffer[w[2]] # buffers[w[2]][1]
          /\ \E b \in Elems(buffers[v[2]]) :
                /\ b \notin Elems(buffers[w[2]])
                /\ SwitchToBuffer(Cur, w, b).active_buffer = active_buffer
          /\ SelectBufferByIndexResult(Cur, w, Len(buffers[w[2]])) = NoBuffer
          /\ SelectBufferByIndex(Cur, w, 0).active_buffer[w[2]] =
                 buffers[w[2]][1]

(***************************************************************************)
(* FileBuffers sharing one client: load, focus and the dispatch of         *)
(* publishDiagnostics notifications to the registered handlers.            *)
(***************************************************************************)
\* FileBuffer.load, lines 142-155, with the client get_client returned: the
\* handler is added and the first equal handler is removed again. The field
\* handlers counts the entries of the client's _notification_handlers whose
\* func is this buffer's listen_for_reports.
LoadBinds(b, client) ==
    [b EXCEPT !.lsp_client = client, !.handlers = (@ + 1) - 1]

\* FileBuffer.focus, lines 94-107, with the client get_client returned
FocusBinds(b, client) ==
    IF b.lsp_client = NoClient
    THEN [b EXCEPT !.lsp_client = client, !.handlers = @ + 1]
    ELSE b

\* whether the call sends didOpen once get_client has returned a client
OpensDocument(op, b) == op = "load" \/ b.lsp_client = NoClient

\* load or focus of buffer i, once get_client has returned `client`
GetClientReturns(op, i, client) ==
    LET b == fbuf[i] IN
    /\ fbuf' = [fbuf EXCEPT ![i] = IF op = "load" THEN LoadBinds(b, client)
                                   ELSE FocusBinds(b, client)]
    /\ lsp_sent' = IF OpensDocument(op, b)
                   THEN Append(lsp_sent,
                               DocNote(client, "textDocument/didOpen", b.path))
                   ELSE lsp_sent
    /\ ed_pc' = "idle"
    /\ ed_pending' = NoFileBuffer
    /\ ecall' = Call(op, i, b.path, "bound", "returned")

\* FileBuffer.__init__, lines 19-46, for a path
ConstructBufferAct ==
    \E path \in EdPaths :
        /\ ed_pc = "idle"
        /\ Len(fbuf) < MaxFileBuffers
        /\ fbuf' = Append(fbuf, NewFileBuffer(path, ed_buffers))
        /\ ecall' = Call("init", Len(fbuf) + 1, path, "none", "none")
        /\ UNCHANGED <<disk, ed_buffers, ed_active, ed_pc, ed_pending, lsp_sent,
                       mgrVars, wmVars, lspVars, bufVars, subVars>>

\* FileBuffer.load, lines 128-155, and FileBuffer.focus, lines 93-107, up to
\* the await of client.start
LoadOrFocusAct ==
    \E i \in DOMAIN fbuf, op \in {"load", "focus"} :
        LET r == IF op = "load" THEN LoadFile(disk, fbuf[i])
                 ELSE [buf |-> fbuf[i], raised |-> FALSE]
            config == get_server_config(fbuf[i].path)
            found == RunningClient(running, config)
        IN /\ ed_pc = "idle"
           /\ Len(lsp_sent) < MaxSent
           /\ IF r.raised
              THEN \* load raised while it read the file
                   /\ ecall' = Call(op, i, fbuf[i].path, "raised", "raised")
                   /\ UNCHANGED <<fbuf, ed_pc, ed_pending, lsp_sent, mgrVars>>
              ELSE IF config = NoConfig
              THEN \* get_client returned None
                   /\ fbuf' = [fbuf EXCEPT ![i] = r.buf]
                   /\ ecall' = Call(op, i, fbuf[i].path, "unbound", "returned")
                   /\ UNCHANGED <<ed_pc, ed_pending, lsp_sent, mgrVars>>
              ELSE IF found # NoClient
              THEN /\ \E loaded \in {[fbuf EXCEPT ![i] = r.buf]} :
                          /\ fbuf' = [loaded EXCEPT ![i] =
                                         IF op = "load"
                                         THEN LoadBinds(loaded[i], found)
                                         ELSE FocusBinds(loaded[i], found)]
                          /\ lsp_sent' =
                                 IF OpensDocument(op, loaded[i])
                                 THEN Append(lsp_sent,
                                             DocNote(found,
                                                     "textDocument/didOpen",
                                                     loaded[i].path))
                                 ELSE lsp_sent
                   /\ ecall' = Call(op, i, fbuf[i].path, "bound", "returned")
                   /\ UNCHANGED <<ed_pc, ed_pending, mgrVars>>
              ELSE \* manager.py lines 37-38: a client is made and started
                   /\ Len(mclient) < MaxClients
                   /\ mclient' = Append(mclient,
                                        [extensions |-> config.extensions,
                                         status |-> "starting"])
                   /\ fbuf' = [fbuf EXCEPT ![i] = r.buf]
                   /\ ed_pc' = "starting"
                   /\ ed_pending' = [op |-> op, buf |-> i]
                   /\ ecall' = Call(op, i, fbuf[i].path, "awaiting", "awaiting")
                   /\ UNCHANGED <<lsp_sent, running, caller>>
           /\ UNCHANGED <<disk, ed_buffers, ed_active, wmVars, lspVars, bufVars,
                          subVars>>

\* client.start has returned: manager.py lines 39-40, then the rest of load
\* or focus
LoadOrFocusStartReturns ==
    /\ ed_pc = "starting"
    /\ mclient' = [mclient EXCEPT ![Len(mclient)].status = "started"]
    /\ running' = Append(running,
                         [extensions |-> mclient[Len(mclient)].extensions,
                          client |-> Len(mclient)])
    /\ GetClientReturns(ed_pending.op, ed_pending.buf, Len(mclient))
    /\ UNCHANGED <<disk, ed_buffers, ed_active, caller, wmVars, lspVars,
                   bufVars, subVars>>

\* client.start has raised: the exception leaves get_client and load or focus
LoadOrFocusStartRaises ==
    /\ ed_pc = "starting"
    /\ mclient' = [mclient EXCEPT ![Len(mclient)].status = "failed"]
    /\ ed_pc' = "idle"
    /\ ed_pending' = NoFileBuffer
    /\ ecall' = Call(ed_pending.op, ed_pending.buf, ecall.path, "raised",
                     "raised")
    /\ UNCHANGED <<disk, fbuf, ed_buffers, ed_active, lsp_sent, running, caller,
                   wmVars, lspVars, bufVars, subVars>>

\* FileBuffer.listen_for_reports, lines 191-196, called with a notification:
\* the uri of the notification is not looked at
ListenForReportsOf(b, ev) ==
    IF b.lsp_client # NoClient
    THEN [b EXCEPT !.reports = ListenForReports(@, ev)]
    ELSE b

\* LspClient.listen_for_notifications, lines 238-241: a publishDiagnostics
\* notification of client c is given to every handler of _notification_handlers
Dispatch(fb, c, ev) ==
    [i \in DOMAIN fb |->
        IF fb[i].lsp_client = c /\ fb[i].handlers > 0
        THEN ListenForReportsOf(fb[i], ev)
        ELSE fb[i]]

\* the notifications the servers publish here: one diagnostic each
PublishedEvents == {<<d>> : d \in Diagnostics}

\* the server of client c publishes diagnostics for a document that is open
\* on it, and the listener of c dispatches the notification
PublishDiagnosticsAct ==
    \E c \in DOMAIN mclient, path \in EdPaths, ev \in PublishedEvents :
        /\ ed_pc = "idle"
        /\ mclient[c].status = "started"
        /\ \E i \in DOMAIN fbuf : fbuf[i].lsp_client = c /\ fbuf[i].path = path
        /\ fbuf' = Dispatch(fbuf, c, ev)
        /\ ecall' = Call("publishDiagnostics", c, path, "none", "none")
        /\ UNCHANGED <<disk, ed_buffers, ed_active, ed_pc, ed_pending, lsp_sent,
                       mgrVars, wmVars, lspVars, bufVars, subVars>>

\* the editor on a file system where a.py can be read and written
InitDiag == InitEd /\ disk[<<"a", ".py">>] = Present("rw", "p")

NextDiag ==
    \/ ConstructBufferAct
    \/ LoadOrFocusAct
    \/ LoadOrFocusStartReturns
    \/ LoadOrFocusStartRaises
    \/ PublishDiagnosticsAct

SpecDiag == InitDiag /\ [][NextDiag]_vars

\* a step in which the listener dispatches a publishDiagnostics notification
PublishStep == ecall'.op = "publishDiagnostics" /\ fbuf' # fbuf

\* C32: a publishDiagnostics notification for document X never changes the
\* reports of a buffer whose path is a different document Y, also when both
\* buffers share one client and both have their handler registered.
C32_OtherDocumentKeepsReports ==
    [][PublishStep =>
          \A i \in DOMAIN fbuf :
              fbuf[i].path # ecall'.path => fbuf'[i].reports = fbuf[i].reports]_vars

(***************************************************************************)
(* Two tasks with requests outstanding on a client whose server answers    *)
(* every request it is sent, before any wait for the answer times out.     *)
(***************************************************************************)
\* LspClient._wait_for_message_of_type, line 183: wait_for gives up after the
\* timeout, which on this server passes only once nothing is left to answer
TimeoutAnswered ==
    /\ server_recv = {}
    /\ wire = <<>>
    /\ new_messages = <<>>
    /\ \A i \in DOMAIN send_buf : send_buf[i].kind # "request"
    /\ Timeout

NextAnswered ==
    \/ Start
    \/ Request
    \/ Get
    \/ TimeoutAnswered
    \/ ServerRespond
    \/ SendStdin
    \/ ProcessStdout

SpecAnswered == InitLsp /\ [][NextAnswered]_vars

\* the event loop runs every task that can run, the pumps move every message
\* and the server answers every request it has read
FairSpecAnswered ==
    /\ SpecAnswered
    /\ WF_vars(Get)
    /\ WF_vars(TimeoutAnswered)
    /\ WF_vars(ServerRespond)
    /\ WF_vars(SendStdin)
    /\ WF_vars(ProcessStdout)

\* C33: if the server answers every request, each of two requests of
\* different types that are outstanding at the same time on one client
\* eventually returns its result to its caller; no response is set aside by
\* the other waiter so that its own waiter never sees it.
C33_BothRequestsReturn ==
    \A t \in Requesters :
        \A u \in Requesters \ {t} :
            (Waiting(t) /\ Waiting(u) /\ task[t].want # task[u].want)
                ~> (task[t].pc = "returned" /\ task[t].got.id = task[t].id)

(***************************************************************************)
(* The commands that take a buffer out of the editor, and the didClose     *)
(* notification of the buffer's language client.                           *)
(***************************************************************************)
\* the files of the session for which a language server is configured
ServedFiles == {"A", "E"}

\* EditorBuffer: the buffer holds a client once create_buffer has read it,
\* when a server is configured for its file
LspBound(buffer) == DisplayName(buffer) \in ServedFiles

\* the buffers in the lists of the windows of the tree
ListedBuffers(s) ==
    UNION {Elems(s.buffers[w[2]]) :
              w \in {x \in Elems(GetAllWindows(s.children, s.root)) : IsWindow(x)}}

\* the step hands a didClose for the buffer to a client
DidCloseSentFor(buffer) ==
    \E i \in (Len(lsp_sent) + 1)..Len(lsp_sent') :
        /\ lsp_sent'[i].method = "textDocument/didClose"
        /\ lsp_sent'[i].path = buffer

\* C36: every buffer with a bound client that a quit or buffer-delete command
\* removes from the editor has didClose sent for its document before it is
\* dropped; no command discards a bound buffer without that notification.
C36_RemovedBufferIsClosed ==
    [][\A buffer \in ListedBuffers(Cur) :
          (LspBound(buffer) /\ buffer \notin ListedBuffers(Cur'))
              => DidCloseSentFor(buffer)]_vars

(***************************************************************************)
(* Commands refused because of unsaved changes.                            *)
(***************************************************************************)
\* the layout and the buffer lists of two states are the same
SameWindows(s, t) ==
    /\ t.root = s.root
    /\ t.children = s.children
    /\ t.is_horizontal = s.is_horizontal
    /\ t.active_window = s.active_window
    /\ t.nwin = s.nwin
    /\ t.buffers = s.buffers

\* C37: quitting or closing a buffer that has unsaved changes without the
\* force flag removes nothing: the buffer stays in its buffer list, the split
\* tree and the active window are unchanged and the application does not
\* exit; quit-all without force closes no window when a buffer is unsaved.
C37_UnsavedQuitRemovesNothing ==
    /\ Quit(Cur, TRUE) = Returned(Cur)
    /\ ~QuitExits(Cur, TRUE)
    /\ DeleteBuffer(Cur, TRUE) = Returned(Cur)
    /\ \A w \in Elems(TreeWindows) :
          \A first_unsaved \in Elems(buffers[w[2]]) :
              SameWindows(Cur, QuitAllUnsaved(Cur, first_unsaved).s)

\* the commands have left several windows, and the active window holds
\* several buffers: the quit command would take the shown buffer out of its
\* list if it were not unsaved, and it would close the window and change the
\* tree if that window held one buffer only
C37_Witness ==
    /\ hist = <<Overflow>>
    /\ active_window # None
    /\ Len(TreeWindows) >= 2
    /\ Len(buffers[active_window[2]]) >= 2
    /\ active_buffer[active_window[2]] \in Elems(buffers[active_window[2]])
    /\ Quit(Cur, FALSE).s.buffers # buffers
    /\ \E w \in Elems(TreeWindows) :
          /\ Len(buffers[w[2]]) = 1
          /\ ~SameWindows(Cur, Quit(FocusWindow(Cur, w), FALSE).s)
          /\ Quit(FocusWindow(Cur, w), TRUE).s = FocusWindow(Cur, w)
    /\ \E w \in Elems(TreeWindows) :
          \E first_unsaved \in Elems(buffers[w[2]]) :
              QuitAllUnsaved(Cur, first_unsaved).s # Cur

\* SnoEdit.close_current_buffer on an unsaved buffer without forced: the
\* buffer list is kept, nothing is sent to a client and the application does
\* not exit
RefusedCloseKeepsBuffers ==
    [][ecall'.op = "close_refused" =>
          /\ ed_buffers' = ed_buffers
          /\ lsp_sent' = lsp_sent
          /\ ed_pc' = ed_pc
          /\ disk' = disk]_vars

(***************************************************************************)
(* The only command: every window but the active one is closed.            *)
(***************************************************************************)
\* _only_window, lines 364-365: the windows are closed one after the other;
\* a close_window that raises ends the command
RECURSIVE CloseWindows(_, _)
CloseWindows(s, windows) ==
    IF windows = <<>> THEN Returned(s)
    ELSE LET r == CloseWindow(s, Head(windows)) IN
         IF r.raised THEN r ELSE CloseWindows(r.s, Tail(windows))

\* the only command, _only_window
OnlyWindow(s) ==
    IF s.active_window = None THEN Returned(s)
    ELSE CloseWindows(s, SelectSeq(GetAllWindows(s.children, s.root),
                                   LAMBDA w : w # s.active_window))

OnlyWindowAct ==
    \E r \in {OnlyWindow(Cur)} :
        /\ Install(r.s)
        /\ Record(Op("only", None, TRUE, r.raised))
        /\ UNCHANGED <<lspVars, mgrVars, bufVars, subVars, edVars>>
        /\ run' = NoRun

InitOnly == InitWM

NextOnly ==
    \/ SplitAct
    \/ CloseWindowAct
    \/ FocusWindowAct
    \/ OnlyWindowAct

SpecOnly == InitOnly /\ [][NextOnly]_vars

\* what the only command leaves of state s: one window, the active one, and
\* no container with fewer than two children
OnlyLeavesActiveWindow(s) ==
    \A r \in {OnlyWindow(s)} :
        /\ ~r.raised
        /\ GetAllWindows(r.s.children, r.s.root) = <<s.active_window>>
        /\ r.s.active_window = s.active_window
        /\ \A c \in Containers(r.s.children, r.s.root) :
              Len(r.s.children[c[2]]) >= 2

\* C38: from any tree with an active window, the only command terminates with
\* the tree holding exactly one window, the previously active one, which is
\* still the active window; no container with fewer than two children
\* remains.
C38_OnlyKeepsTheActiveWindow ==
    active_window \in Elems(TreeWindows) => OnlyLeavesActiveWindow(Cur)

\* the same, from the trees in which no container has fewer than two children
OnlyFromProperTrees ==
    (/\ active_window \in Elems(TreeWindows)
     /\ \A c \in TreeContainers : Len(children[c[2]]) >= 2)
        => OnlyLeavesActiveWindow(Cur)

(***************************************************************************)
(* SnoEdit: one buffer for each path.                                      *)
(***************************************************************************)
\* C39: after any sequence of create_file_buffer calls no two buffers of the
\* editor's buffer list have the same absolute path: opening a path that is
\* already open selects the existing buffer and creates no other one, also
\* when that buffer is the active buffer.
C39_OnePathOneBuffer ==
    \A path \in EdPaths : Cardinality(Listed(path)) <= 1

\* the same for the paths that are open in a buffer other than the active
\* one: a call of create_file_buffer on such a path adds no buffer
OpenElsewhereIsSelected ==
    [][\A path \in EdPaths :
          (/\ ecall'.op = "create_file_buffer"
           /\ ecall'.path = path
           /\ ed_pc = "idle"
           /\ Listed(path) # {}
           /\ path # ActivePath)
              => (/\ ed_buffers' = ed_buffers
                  /\ ed_active' \in Listed(path)
                  /\ ecall'.result = "selected")]_vars

(***************************************************************************)
(* Subscriptions that end because the server process is gone.              *)
(***************************************************************************)
\* C40: when a listen_for_notifications subscription ends because the server
\* process is gone (LanguageServerCrashed is raised inside the subscription)
\* and not by cancellation, its queue is removed from the broadcast list
\* too, so the list only ever holds the queues of live subscribers.
C40_CrashedSubscriptionLeavesList ==
    /\ \A s \in Subscribers :
          sub[s].pc = "crashed" => s \notin Elems(notification_queues)
    /\ \A s \in Elems(notification_queues) : sub[s].pc = "waiting"

\* the broadcast list holds the queues of the live subscribers and of those
\* that LanguageServerCrashed has ended, and no other
ListHoldsLiveAndCrashed ==
    \A s \in Subscribers :
        s \in Elems(notification_queues) <=> sub[s].pc \in {"waiting", "crashed"}

====
